---- MODULE Spec2Model ----
(***************************************************************************)
(* The ancestor builder of tsinfer (lib/ancestor_builder.c, kept here as   *)
(* src/unnamed/part_001): the builder object, add_site, finalise and       *)
(* make_ancestor with its helper compute_older_sites; and the Python        *)
(* extension module (src/_tsinfermodule.c): the ReferencePanel and         *)
(* Threader objects and their methods.                                     *)
(*                                                                         *)
(* Conventions.  C arrays indexed from 0 (sites, genotype columns, the     *)
(* ancestor buffer, the descriptor array) are functions on 0..n-1.  Linked *)
(* lists, the in-order contents of an AVL tree and scratch arrays that are *)
(* filled from the front are sequences.  A genotypes pointer is the index  *)
(* of the buffer in the arena (self.allocator); NULL is 0.                 *)
(***************************************************************************)
EXTENDS Integers, Sequences, FiniteSets, TLC

\* Largest num_samples / num_sites of a builder (Spec).
MaxSamples == 5
MaxSites == 3
\* Largest num_samples / num_sites of a builder whose sites are added in any
\* order (SpecAnyOrder).
MaxSamplesAnyOrder == 3
MaxSitesAnyOrder == 3
\* Largest num_samples / num_sites of a builder whose make_ancestor calls may
\* fail (SpecNoMemory).
MaxSamplesNoMemory == 3
MaxSitesNoMemory == 2
\* Largest number of rows / columns of the haplotypes a ReferencePanel is
\* built from, and the number of blocks that can be lost before no memory is
\* left.
MaxPanelSamples == 1
MaxPanelSites == 2
MaxLeaked == 1
\* Largest num_samples / num_sites of a builder that two make_ancestor calls
\* use together (SpecConcurrent).
MaxSamplesConcurrent == 4
MaxSitesConcurrent == 2
\* Largest num_samples / num_sites of a builder whose caller passes any
\* frequency up to num_samples (SpecAnyFrequency).
MaxSamplesAnyFrequency == 3
MaxSitesAnyFrequency == 2
\* Largest num_samples / num_sites of a builder whose add_site calls may
\* fail (SpecAddSiteNoMemory).
MaxSamplesAddSiteNoMemory == 3
MaxSitesAddSiteNoMemory == 3

UNKNOWN == -1
NULL == 0

Alleles == {0, 1}

\* The columns a caller passes to add_site for a builder of n samples: the
\* derived allele is carried by the first k samples or by the last k samples
\* (k = 0 .. n).
Genotypes(n) ==
    {[u \in 0 .. n - 1 |-> IF u < k THEN 1 ELSE 0] : k \in 0 .. n}
        \cup {[u \in 0 .. n - 1 |-> IF u < k THEN 0 ELSE 1] : k \in 0 .. n}

\* The number of samples carrying the derived allele: the frequency the
\* caller passes along with a column.
Ones(g) == Cardinality({u \in DOMAIN g : g[u] = 1})

VARIABLES
    self,       \* the ancestor_builder_t object
    finalised,  \* the caller has moved on from add_site to finalise
    calls,      \* the add_site calls made so far, in order (history)
    focal,      \* focal site of the last make_ancestor call, or -1
    ancestor,   \* the caller's output buffer of make_ancestor
    ret_start,  \* the caller's *ret_start
    ret_end,    \* the caller's *ret_end
    ret,        \* the value the last builder call returned
    \* make_ancestor calls running side by side on one builder
    frames,     \* the locals of each call, by caller
    heap,       \* the scratch blocks handed out by malloc and calloc
    outputs,    \* each caller's ancestor buffer, *ret_start and *ret_end
    \* the extension module
    panel,      \* the ReferencePanel object
    threaders,  \* the Threader objects
    library,    \* the library structures behind the objects, by address
    threads,    \* the interpreter threads and the run call each is in
    paths,      \* the callers' path arrays
    results     \* what the last method call of each thread gave its caller

builder_vars == <<self, finalised, calls, focal, ancestor, ret_start, ret_end, ret>>
concurrent_vars == <<frames, heap, outputs>>
module_vars == <<panel, threaders, library, threads, paths, results>>
vars == <<builder_vars, concurrent_vars, module_vars>>

\* The error code of a failed allocation: a non-zero int (lib/err.h sets it).
TSI_ERR_NO_MEMORY == -2

----------------------------------------------------------------------------
(* Construction *)

ZeroSite == [frequency |-> 0, genotypes |-> NULL]
ZeroDescriptor == [frequency |-> 0, num_focal_sites |-> 0, focal_sites |-> <<>>]

ancestor_builder_alloc(num_samples, num_sites) ==
    [num_samples   |-> num_samples,
     num_sites     |-> num_sites,
     sites         |-> [l \in 0 .. num_sites - 1 |-> ZeroSite],
     frequency_map |-> [f \in 0 .. num_samples |-> <<>>],
     descriptors   |-> [j \in 0 .. num_sites - 1 |-> ZeroDescriptor],
     num_ancestors |-> 0,
     allocator     |-> <<>>]

----------------------------------------------------------------------------
(* The ordered pattern map: an AVL tree per frequency, modelled by its      *)
(* in-order sequence of pattern_map_t items.                                *)

\* memcmp over n bytes: the difference at the first differing byte, else 0.
memcmp(a, b, n) ==
    LET diff == {i \in 0 .. n - 1 : a[i] # b[i]}
    IN  IF diff = {} THEN 0
        ELSE LET i == CHOOSE i \in diff : \A k \in diff : i <= k
             IN  a[i] - b[i]

\* cmp_pattern_map on two genotype buffers.
cmp_pattern_map(ia_genotypes, ib_genotypes, num_samples) ==
    memcmp(ia_genotypes, ib_genotypes, num_samples)

\* avl_search that finds nothing.
avl_search_miss(b, pattern_map, genotypes) == NULL

\* avl_search: the position of the item whose key compares equal, or NULL.
avl_search(b, pattern_map, genotypes) ==
    LET hit == {i \in 1 .. Len(pattern_map) :
                  cmp_pattern_map(genotypes,
                      b.allocator[pattern_map[i].genotypes], b.num_samples) = 0}
    IN  IF hit = {} THEN NULL ELSE CHOOSE i \in hit : TRUE

\* avl_insert_node: the item goes after every item with a smaller key.
avl_insert_node(b, pattern_map, map_elem) ==
    LET smaller == {i \in 1 .. Len(pattern_map) :
                      cmp_pattern_map(b.allocator[pattern_map[i].genotypes],
                          b.allocator[map_elem.genotypes], b.num_samples) < 0}
        pos == Cardinality(smaller)
    IN  SubSeq(pattern_map, 1, pos) \o <<map_elem>>
            \o SubSeq(pattern_map, pos + 1, Len(pattern_map))

----------------------------------------------------------------------------
(* add_site *)

\* link_site without the increment of num_sites.
link_site_uncounted(map_elem, l) ==
    [map_elem EXCEPT !.sites = <<l>> \o @]

\* map_elem->num_sites++ and the front-insertion of a list node for site l.
link_site(map_elem, l) ==
    [map_elem EXCEPT !.num_sites = @ + 1, !.sites = <<l>> \o @]

\* ancestor_builder_add_site with the test "frequency > 0": a singleton site
\* gets a pattern too.
ancestor_builder_add_site_singletons(b, l, frequency, genotypes) ==
    LET pattern_map == b.frequency_map[frequency]
        avl_node == avl_search(b, pattern_map, genotypes)
    IN  IF ~(frequency > 0)
        THEN [b EXCEPT !.sites[l].frequency = frequency]
        ELSE IF avl_node = NULL
        THEN LET allocator == Append(b.allocator, genotypes)
                 copy == Len(allocator)
                 b1 == [b EXCEPT !.allocator = allocator]
                 map_elem == [genotypes |-> copy, num_sites |-> 0, sites |-> <<>>]
             IN  [b1 EXCEPT !.sites[l] = [frequency |-> frequency,
                                          genotypes |-> copy],
                            !.frequency_map[frequency] =
                                avl_insert_node(b1, pattern_map,
                                                link_site(map_elem, l))]
        ELSE LET map_elem == pattern_map[avl_node]
             IN  [b EXCEPT !.sites[l] = [frequency |-> frequency,
                                         genotypes |-> map_elem.genotypes],
                           !.frequency_map[frequency][avl_node] =
                               link_site(map_elem, l)]

\* The builder after ancestor_builder_add_site(self, l, frequency, genotypes)
\* returned 0.
ancestor_builder_add_site(b, l, frequency, genotypes) ==
    LET pattern_map == b.frequency_map[frequency]
        avl_node == avl_search(b, pattern_map, genotypes)
    IN  IF ~(frequency > 1)
        THEN [b EXCEPT !.sites[l].frequency = frequency]
        ELSE IF avl_node = NULL
        THEN \* a new pattern: copy the column into the arena, insert an
             \* item with num_sites = 0 and sites = NULL, then count and
             \* link the site
             LET allocator == Append(b.allocator, genotypes)
                 copy == Len(allocator)
                 b1 == [b EXCEPT !.allocator = allocator]
                 map_elem == [genotypes |-> copy, num_sites |-> 0, sites |-> <<>>]
             IN  [b1 EXCEPT !.sites[l] = [frequency |-> frequency,
                                          genotypes |-> copy],
                            !.frequency_map[frequency] =
                                avl_insert_node(b1, pattern_map,
                                                link_site(map_elem, l))]
        ELSE \* a known pattern: share its buffer, count and link the site
             LET map_elem == pattern_map[avl_node]
             IN  [b EXCEPT !.sites[l] = [frequency |-> frequency,
                                         genotypes |-> map_elem.genotypes],
                           !.frequency_map[frequency][avl_node] =
                               link_site(map_elem, l)]

----------------------------------------------------------------------------
(* finalise *)

\* focal_sites_array filled from index 0 upwards: the list is not reversed.
focal_sites_array_forwards(map_elem) ==
    [i \in 1 .. map_elem.num_sites |-> map_elem.sites[i]]

\* The focal_sites array of an item: the site list is written from index
\* num_sites - 1 downwards (k = num_sites - 1; focal_sites[k] = s->site; k--).
\* As a sequence, array index k is position k + 1.
focal_sites_array(map_elem) ==
    [i \in 1 .. map_elem.num_sites |->
        map_elem.sites[(map_elem.num_sites - 1) - (i - 1) + 1]]

\* A pointer p into the focal_sites array is the part of the array from p on;
\* the pointer difference p - q of two pointers into the same array is then
\* Len(q) - Len(p).
PtrDiff(p, q) == Len(q) - Len(p)

\* split_descriptors with the break test never true: the descriptor is left
\* with all the focal sites of the item.
split_descriptors_never(st, cur, focal_sites, num_sites, j, k) == st

\* The loop "for (k = 0; k < map_elem->num_sites - 1; k++)" from iteration k
\* on.  cur is the index of the descriptor being cut; st holds the descriptor
\* array and num_ancestors.
RECURSIVE split_descriptors(_, _, _, _, _, _)
split_descriptors(st, cur, focal_sites, num_sites, j, k) ==
    IF ~(k < num_sites - 1) THEN st
    ELSE LET p == SubSeq(focal_sites, k + 2, Len(focal_sites))
             new == st.num_ancestors
             descriptors ==
                 [st.descriptors EXCEPT
                    ![cur].num_focal_sites = PtrDiff(p, st.descriptors[cur].focal_sites),
                    ![new] = [frequency |-> j,
                              num_focal_sites |-> num_sites - k - 1,
                              focal_sites |-> p]]
         IN  split_descriptors(
                 [descriptors |-> descriptors, num_ancestors |-> new + 1],
                 new, focal_sites, num_sites, j, k + 1)

\* The body of the loop over the items of bucket j, for one item.
finalise_item(st, map_elem, j) ==
    LET cur == st.num_ancestors
        focal_sites == focal_sites_array(map_elem)
        first == [frequency |-> j,
                  num_focal_sites |-> map_elem.num_sites,
                  focal_sites |-> focal_sites]
    IN  split_descriptors(
            [descriptors |-> [st.descriptors EXCEPT ![cur] = first],
             num_ancestors |-> cur + 1],
            cur, focal_sites, map_elem.num_sites, j, 0)

\* "for (a = head; a != NULL; a = a->next)" over bucket j, from item i on.
RECURSIVE finalise_bucket(_, _, _, _)
finalise_bucket(st, pattern_map, j, i) ==
    IF i > Len(pattern_map) THEN st
    ELSE finalise_bucket(finalise_item(st, pattern_map[i], j), pattern_map, j, i + 1)

\* finalise_frequencies with the loop test "j > 2".
RECURSIVE finalise_frequencies_above_two(_, _, _)
finalise_frequencies_above_two(b, st, j) ==
    IF ~(j > 2) THEN st
    ELSE finalise_frequencies_above_two(b,
             finalise_bucket(st, b.frequency_map[j], j, 1), j - 1)

\* finalise_frequencies walking the buckets upwards from 2 to num_samples.
RECURSIVE finalise_frequencies_upwards(_, _, _)
finalise_frequencies_upwards(b, st, j) ==
    IF ~(j > 1) THEN st
    ELSE LET f == b.num_samples + 2 - j
         IN  finalise_frequencies_upwards(b,
                 finalise_bucket(st, b.frequency_map[f], f, 1), j - 1)

\* "for (j = num_samples; j > 1; j--)" from frequency j on.
RECURSIVE finalise_frequencies(_, _, _)
finalise_frequencies(b, st, j) ==
    IF ~(j > 1) THEN st
    ELSE finalise_frequencies(b, finalise_bucket(st, b.frequency_map[j], j, 1), j - 1)

\* ancestor_builder_finalise without "self->num_ancestors = 0".
ancestor_builder_finalise_no_reset(b) ==
    LET st == finalise_frequencies(b,
                  [descriptors |-> b.descriptors,
                   num_ancestors |-> b.num_ancestors],
                  b.num_samples)
    IN  [b EXCEPT !.descriptors = st.descriptors,
                  !.num_ancestors = st.num_ancestors]

\* The builder after ancestor_builder_finalise(self) returned 0.
ancestor_builder_finalise(b) ==
    LET st == finalise_frequencies(b,
                  [descriptors |-> b.descriptors, num_ancestors |-> 0],
                  b.num_samples)
    IN  [b EXCEPT !.descriptors = st.descriptors,
                  !.num_ancestors = st.num_ancestors]

----------------------------------------------------------------------------
(* make_ancestor *)

\* The buffer a site's genotypes pointer refers to.
site_genotypes(b, l) == b.allocator[b.sites[l].genotypes]

\* ancestor_builder_get_consistent_samples: the samples carrying 1 at the
\* site, in ascending order.
RECURSIVE consistent_samples_from(_, _, _)
consistent_samples_from(genotypes, j, num_samples) ==
    IF ~(j < num_samples) THEN <<>>
    ELSE (IF genotypes[j] = 1 THEN <<j>> ELSE <<>>)
             \o consistent_samples_from(genotypes, j + 1, num_samples)

\* ancestor_builder_get_consistent_samples with the loop starting at j = 1.
ancestor_builder_get_consistent_samples_from_second(b, site) ==
    consistent_samples_from(site_genotypes(b, site), 1, b.num_samples)

ancestor_builder_get_consistent_samples(b, site) ==
    consistent_samples_from(site_genotypes(b, site), 0, b.num_samples)

\* "ones += genotypes[sample_set[k]]" over the sample set.
RECURSIVE count_ones(_, _, _)
count_ones(genotypes, sample_set, k) ==
    IF k > Len(sample_set) THEN 0
    ELSE genotypes[sample_set[k]] + count_ones(genotypes, sample_set, k + 1)

\* consensus_of with a strict majority: a tie gives 0.
consensus_of_strict(ones, zeros) == IF ones > zeros THEN 1 ELSE 0

\* consensus = 0; if (ones >= zeros) consensus = 1;
consensus_of(ones, zeros) == IF ones >= zeros THEN 1 ELSE 0

\* marked_for_removal without the disagree flag: one strike removes.
marked_for_removal_one_strike(disagree, genotypes, consensus, u) ==
    genotypes[u] # consensus

\* if (disagree[u] && genotypes[u] != consensus) sample_set[k] = -1;
marked_for_removal(disagree, genotypes, consensus, u) ==
    disagree[u] /\ genotypes[u] # consensus

\* "Repack the sample set": the samples not marked, in their order.
RECURSIVE repack(_, _, _, _, _)
repack(sample_set, disagree, genotypes, consensus, k) ==
    IF k > Len(sample_set) THEN <<>>
    ELSE (IF marked_for_removal(disagree, genotypes, consensus, sample_set[k])
          THEN <<>> ELSE <<sample_set[k]>>)
             \o repack(sample_set, disagree, genotypes, consensus, k + 1)

\* older_sites_begin with min_sample_set_size rounded up.
older_sites_begin_rounded_up(b, focal_site, ancestor_buf, sample_set) ==
    [sample_set          |-> sample_set,
     min_sample_set_size |-> (Len(sample_set) + 1) \div 2,
     disagree            |-> [u \in 0 .. b.num_samples - 1 |-> FALSE],
     ancestor            |-> ancestor_buf,
     last_site           |-> focal_site,
     stopped             |-> FALSE]

\* The state of compute_older_sites on entry to its loop.
older_sites_begin(b, focal_site, ancestor_buf, sample_set) ==
    [sample_set          |-> sample_set,
     min_sample_set_size |-> Len(sample_set) \div 2,
     disagree            |-> [u \in 0 .. b.num_samples - 1 |-> FALSE],
     ancestor            |-> ancestor_buf,
     last_site           |-> focal_site,
     stopped             |-> FALSE]

\* One iteration of the loop over older_sites, at site l.
older_site_step(b, st, l) ==
    LET genotypes == site_genotypes(b, l)
        ones == count_ones(genotypes, st.sample_set, 1)
        zeros == Len(st.sample_set) - ones
        consensus == consensus_of(ones, zeros)
        repacked == repack(st.sample_set, st.disagree, genotypes, consensus, 1)
        remaining == {repacked[k] : k \in 1 .. Len(repacked)}
    IN  IF Len(repacked) <= st.min_sample_set_size
        THEN [st EXCEPT !.sample_set = repacked, !.stopped = TRUE]
        ELSE [st EXCEPT !.sample_set = repacked,
                        !.ancestor[l] = consensus,
                        !.last_site = l,
                        !.disagree = [u \in DOMAIN st.disagree |->
                                        IF u \in remaining
                                        THEN genotypes[u] # consensus
                                        ELSE st.disagree[u]]]

\* The loop state after the first n iterations (fewer if the loop broke).
RECURSIVE older_sites_loop(_, _, _, _)
older_sites_loop(b, st0, older_sites, n) ==
    IF n = 0 THEN st0
    ELSE LET st == older_sites_loop(b, st0, older_sites, n - 1)
         IN  IF st.stopped THEN st ELSE older_site_step(b, st, older_sites[n])

\* ancestor_builder_compute_older_sites: the ancestor buffer and last_site.
ancestor_builder_compute_older_sites(b, focal_site, ancestor_buf, older_sites, sample_set) ==
    older_sites_loop(b, older_sites_begin(b, focal_site, ancestor_buf, sample_set),
                     older_sites, Len(older_sites))

\* is_older with ">=".
is_older_or_equal(b, l, focal_site) ==
    b.sites[l].frequency >= b.sites[focal_site].frequency

\* if (self->sites[l].frequency > focal_site_frequency)
is_older(b, l, focal_site) ==
    b.sites[l].frequency > b.sites[focal_site].frequency

\* "for (l = focal_site + 1; l < num_sites; l++)" from l on: the older sites
\* right of the focal site, ascending.
RECURSIVE older_sites_right(_, _, _)
older_sites_right(b, focal_site, l) ==
    IF ~(l < b.num_sites) THEN <<>>
    ELSE (IF is_older(b, l, focal_site) THEN <<l>> ELSE <<>>)
             \o older_sites_right(b, focal_site, l + 1)

\* "for (l = focal_site - 1; l >= 0; l--)" from l on: the older sites left of
\* the focal site, descending.
RECURSIVE older_sites_left(_, _, _)
older_sites_left(b, focal_site, l) ==
    IF ~(l >= 0) THEN <<>>
    ELSE (IF is_older(b, l, focal_site) THEN <<l>> ELSE <<>>)
             \o older_sites_left(b, focal_site, l - 1)

\* fill_younger_sites with the loop running to "l <= to".
fill_younger_sites_inclusive(b, focal_site, ancestor_buf, from, to) ==
    [l \in DOMAIN ancestor_buf |->
        IF from < l /\ l <= to
             /\ b.sites[l].frequency <= b.sites[focal_site].frequency
        THEN 0 ELSE ancestor_buf[l]]

\* "if (sites[l].frequency <= focal_site_frequency) ancestor[l] = 0" for the
\* sites strictly between from and to.
fill_younger_sites(b, focal_site, ancestor_buf, from, to) ==
    [l \in DOMAIN ancestor_buf |->
        IF from < l /\ l < to
             /\ b.sites[l].frequency <= b.sites[focal_site].frequency
        THEN 0 ELSE ancestor_buf[l]]

\* ancestor_builder_make_ancestor whose leftward pass starts with the
\* disagree flags that the rightward pass left.
ancestor_builder_make_ancestor_flags_kept(b, focal_site) ==
    LET cleared == [l \in 0 .. b.num_sites - 1 |->
                      IF l = focal_site THEN 1 ELSE UNKNOWN]
        sample_set == ancestor_builder_get_consistent_samples(b, focal_site)
        right == ancestor_builder_compute_older_sites(b, focal_site, cleared,
                     older_sites_right(b, focal_site, focal_site + 1), sample_set)
        filled_right == fill_younger_sites(b, focal_site, right.ancestor,
                            focal_site, right.last_site)
        older_sites == older_sites_left(b, focal_site, focal_site - 1)
        left == older_sites_loop(b,
                    [older_sites_begin(b, focal_site, filled_right, sample_set)
                        EXCEPT !.disagree = right.disagree],
                    older_sites, Len(older_sites))
        filled_left == fill_younger_sites(b, focal_site, left.ancestor,
                           left.last_site, focal_site)
    IN  [ancestor |-> filled_left,
         ret_end  |-> right.last_site + 1,
         ret_start |-> left.last_site]

\* What ancestor_builder_make_ancestor(self, 1, {focal_site}, ...) writes to
\* the caller's ancestor buffer, *ret_start and *ret_end when it returns 0.
ancestor_builder_make_ancestor(b, focal_site) ==
    LET cleared == [l \in 0 .. b.num_sites - 1 |->
                      IF l = focal_site THEN 1 ELSE UNKNOWN]
        sample_set == ancestor_builder_get_consistent_samples(b, focal_site)
        right == ancestor_builder_compute_older_sites(b, focal_site, cleared,
                     older_sites_right(b, focal_site, focal_site + 1), sample_set)
        filled_right == fill_younger_sites(b, focal_site, right.ancestor,
                            focal_site, right.last_site)
        left == ancestor_builder_compute_older_sites(b, focal_site, filled_right,
                    older_sites_left(b, focal_site, focal_site - 1), sample_set)
        filled_left == fill_younger_sites(b, focal_site, left.ancestor,
                           left.last_site, focal_site)
    IN  [ancestor |-> filled_left,
         ret_end  |-> right.last_site + 1,
         ret_start |-> left.last_site]

\* The allocations of one make_ancestor call, in the order they are made:
\* older_sites and sample_set (malloc), then the disagree buffer (calloc) of
\* the rightward and of the leftward compute_older_sites call.
Allocations == <<"older_sites", "sample_set", "disagree_right", "disagree_left">>

\* What ancestor_builder_make_ancestor leaves in the caller's ancestor buffer,
\* *ret_start and *ret_end when the allocation named by failed returns NULL
\* and the call returns TSI_ERR_NO_MEMORY.  before holds the three outputs as
\* they were on entry.
ancestor_builder_make_ancestor_no_memory(b, focal_site, before, failed) ==
    LET cleared == [l \in 0 .. b.num_sites - 1 |->
                      IF l = focal_site THEN 1 ELSE UNKNOWN]
        sample_set == ancestor_builder_get_consistent_samples(b, focal_site)
        right == ancestor_builder_compute_older_sites(b, focal_site, cleared,
                     older_sites_right(b, focal_site, focal_site + 1), sample_set)
        filled_right == fill_younger_sites(b, focal_site, right.ancestor,
                            focal_site, right.last_site)
    IN  IF failed \in {"older_sites", "sample_set"}
        THEN \* "goto out" before anything is written
             before
        ELSE IF failed = "disagree_right"
        THEN \* after the memset and ancestor[focal_site] = 1
             [before EXCEPT !.ancestor = cleared]
        ELSE \* after the rightward pass, its fill and *ret_end = last_site + 1
             [before EXCEPT !.ancestor = filled_right,
                            !.ret_end = right.last_site + 1]

----------------------------------------------------------------------------
(* The caller: allocate, add each site once, finalise, make ancestors.      *)

\* No make_ancestor call is running and no caller has an output buffer.
NoConcurrentCalls ==
    /\ frames = <<>>
    /\ heap = <<>>
    /\ outputs = <<>>

\* The extension module is not in use.
NoModule ==
    /\ panel = NULL
    /\ threaders = <<>>
    /\ library = <<>>
    /\ threads = <<>>
    /\ paths = <<>>
    /\ results = <<>>

\* The state after ancestor_builder_alloc(num_samples, num_sites).
Allocated(num_samples, num_sites) ==
        /\ self = ancestor_builder_alloc(num_samples, num_sites)
        /\ finalised = FALSE
        /\ calls = <<>>
        /\ focal = -1
        /\ ancestor = [l \in 0 .. num_sites - 1 |-> 0]
        /\ ret_start = 0
        /\ ret_end = 0
        /\ ret = 0
        /\ NoConcurrentCalls
        /\ NoModule

\* The sites add_site has been called for.
Added == {calls[i].site : i \in 1 .. Len(calls)}

\* add_site(l, frequency, genotypes) for a site not added before; the caller
\* passes the number of ones of the column as its frequency.
AddSite(l, genotypes) ==
    /\ ~finalised
    /\ l \notin Added
    /\ self' = ancestor_builder_add_site(self, l, Ones(genotypes), genotypes)
    /\ calls' = Append(calls, [site |-> l, frequency |-> Ones(genotypes),
                               genotypes |-> genotypes])
    /\ ret' = 0
    /\ UNCHANGED <<finalised, focal, ancestor, ret_start, ret_end>>
    /\ UNCHANGED <<concurrent_vars, module_vars>>

\* finalise()
Finalise ==
    /\ self' = ancestor_builder_finalise(self)
    /\ finalised' = TRUE
    /\ ret' = 0
    /\ UNCHANGED <<calls, focal, ancestor, ret_start, ret_end>>
    /\ UNCHANGED <<concurrent_vars, module_vars>>

\* make_ancestor on the focal sites of descriptor j.
MakeAncestor(j) ==
    /\ finalised
    /\ j < self.num_ancestors
    /\ self.descriptors[j].num_focal_sites = 1
    /\ LET focal_site == self.descriptors[j].focal_sites[1]
           out == ancestor_builder_make_ancestor(self, focal_site)
       IN  /\ focal' = focal_site
           /\ ancestor' = out.ancestor
           /\ ret_start' = out.ret_start
           /\ ret_end' = out.ret_end
    /\ ret' = 0
    /\ UNCHANGED <<self, finalised, calls>>
    /\ UNCHANGED <<concurrent_vars, module_vars>>

\* make_ancestor on the focal sites of descriptor j, with one of its
\* allocations failing.
MakeAncestorNoMemory(j, failed) ==
    /\ finalised
    /\ j < self.num_ancestors
    /\ self.descriptors[j].num_focal_sites = 1
    /\ LET focal_site == self.descriptors[j].focal_sites[1]
           out == ancestor_builder_make_ancestor_no_memory(self, focal_site,
                      [ancestor |-> ancestor, ret_start |-> ret_start,
                       ret_end |-> ret_end], failed)
       IN  /\ focal' = focal_site
           /\ ancestor' = out.ancestor
           /\ ret_start' = out.ret_start
           /\ ret_end' = out.ret_end
    /\ ret' = TSI_ERR_NO_MEMORY
    /\ UNCHANGED <<self, finalised, calls>>
    /\ UNCHANGED <<concurrent_vars, module_vars>>

Init ==
    \E num_samples \in 2 .. MaxSamples, num_sites \in 0 .. MaxSites :
        Allocated(num_samples, num_sites)

\* The sites are added in genomic order: site 0 first, then site 1, ...
AddNextSite(genotypes) ==
    /\ Len(calls) < self.num_sites
    /\ AddSite(Len(calls), genotypes)

Next ==
    \/ \E genotypes \in Genotypes(self.num_samples) : AddNextSite(genotypes)
    \/ Finalise
    \/ \E j \in 0 .. self.num_sites - 1 : MakeAncestor(j)

\* The whole life of a builder, its sites added in genomic order.
Spec == Init /\ [][Next]_vars

InitAnyOrder ==
    \E num_samples \in 2 .. MaxSamplesAnyOrder, num_sites \in 0 .. MaxSitesAnyOrder :
        Allocated(num_samples, num_sites)

NextAnyOrder ==
    \/ \E l \in 0 .. self.num_sites - 1, genotypes \in Genotypes(self.num_samples) :
           AddSite(l, genotypes)
    \/ Finalise

\* Filling and finalising a builder, its sites added in any order.
\* make_ancestor reads the builder only through sites[l].frequency and the
\* buffers sites[l].genotypes, which do not depend on the order.
SpecAnyOrder == InitAnyOrder /\ [][NextAnyOrder]_vars

InitNoMemory ==
    \E num_samples \in 2 .. MaxSamplesNoMemory, num_sites \in 0 .. MaxSitesNoMemory :
        Allocated(num_samples, num_sites)

NextNoMemory ==
    \/ \E genotypes \in Genotypes(self.num_samples) : AddNextSite(genotypes)
    \/ Finalise
    \/ \E j \in 0 .. self.num_sites - 1 : MakeAncestor(j)
    \/ \E j \in 0 .. self.num_sites - 1, a \in 1 .. Len(Allocations) :
           MakeAncestorNoMemory(j, Allocations[a])

\* The life of a builder whose make_ancestor calls may run out of memory.
SpecNoMemory == InitNoMemory /\ [][NextNoMemory]_vars

----------------------------------------------------------------------------
(* The extension module (src/_tsinfermodule.c).                             *)
(*                                                                          *)
(* A Python object is a record of the fields of its C struct, plus the      *)
(* field constructed, which remembers how its tp_init call ended ("no"      *)
(* before the call, then "ok" or "failed").  The structures of the library  *)
(* (reference_panel_t, threader_t) and the other blocks obtained from       *)
(* PyMem_Malloc live in the sequence library; the address of a block is its *)
(* index.  The library itself (lib/ls.h and its implementation) is not part *)
(* of the sources: reference_panel_alloc, threader_alloc and threader_run   *)
(* are modelled from the specification.                                     *)

\* The exceptions the methods raise, and the value of memory whose content
\* nothing has set.
NoException == "none"
INDETERMINATE == "indeterminate"

\* A ReferencePanel object as PyType_GenericNew leaves it: all fields zero.
NewReferencePanel ==
    [reference_panel |-> NULL, sequence_length |-> 0, num_haplotypes |-> 0,
     num_sites |-> 0, num_samples |-> 0, constructed |-> "no"]

\* The one ReferencePanel object of the model, as Threader objects refer to it.
ThePanel == 1

\* A Threader object as PyType_GenericNew leaves it.
NewThreader ==
    [reference_panel |-> NULL, threader |-> NULL, constructed |-> "no"]

\* PyMem_Malloc that hands out the first block again.
PyMem_Malloc_first_block(blocks, available) ==
    IF available THEN 1 ELSE NULL

\* PyMem_Malloc: the address of a block that is not in use, or NULL when no
\* memory is available.
PyMem_Malloc(blocks, available) ==
    IF available THEN Len(blocks) + 1 ELSE NULL

\* The block at an address replaced, or added when the address is new.
Store(blocks, address, block) ==
    IF address <= Len(blocks)
    THEN [blocks EXCEPT ![address] = block]
    ELSE Append(blocks, block)

\* reference_panel_alloc (library): the panel structure when it returns err.
\* On success the haplotypes are the given rows followed by an all-zero and
\* an all-one row, and the positions are framed by 0 and the sequence length.
reference_panel_alloc(err, num_samples, num_sites, haplotypes, positions) ==
    IF err # 0
    THEN [type |-> "reference_panel_t", allocated |-> FALSE]
    ELSE [type           |-> "reference_panel_t",
          allocated      |-> TRUE,
          num_samples    |-> num_samples,
          num_sites      |-> num_sites,
          num_haplotypes |-> num_samples + 2,
          haplotypes     |->
              [h \in 0 .. num_samples + 1 |->
                  IF h < num_samples THEN haplotypes[h]
                  ELSE [l \in 0 .. num_sites - 1 |->
                           IF h = num_samples THEN 0 ELSE 1]],
          positions      |-> <<0>> \o positions \o <<num_sites + 1>>]

\* ReferencePanel_check_state
ReferencePanel_check_state(ob) ==
    IF ob.reference_panel = NULL THEN -1 ELSE 0

\* ReferencePanel_init on the object ob with the arguments args; err is what
\* reference_panel_alloc returns and available whether PyMem_Malloc finds
\* memory.  Gives the object, the library blocks and the exception raised.
ReferencePanel_init(ob, blocks, args, available, err) ==
    LET cleared == [ob EXCEPT !.reference_panel = NULL]
        failed(o, exception) ==
            [self |-> [o EXCEPT !.constructed = "failed"], library |-> blocks,
             exception |-> exception]
        array == args.array
        num_sites == array.shape[2]
        num_samples == array.shape[1]
        sized == [cleared EXCEPT !.num_samples = num_samples,
                                 !.num_sites = num_sites,
                                 !.sequence_length = args.sequence_length]
        address == PyMem_Malloc(blocks, available)
        pointed == [sized EXCEPT !.reference_panel = address]
        block == reference_panel_alloc(err, num_samples, num_sites,
                                       array.data, args.positions.data)
    IN  IF ~args.parsed THEN failed(cleared, "TypeError")
        ELSE IF array.ndim # 2 THEN failed(cleared, "ValueError")
        ELSE IF num_samples < 1 THEN failed(sized, "ValueError")
        ELSE IF num_sites < 1 THEN failed(sized, "ValueError")
        ELSE IF args.positions.ndim # 1 THEN failed(sized, "ValueError")
        ELSE IF args.positions.shape[1] # num_sites THEN failed(sized, "ValueError")
        ELSE IF address = NULL THEN failed(sized, "MemoryError")
        ELSE IF err # 0
        THEN [self |-> [pointed EXCEPT !.constructed = "failed"],
              library |-> Store(blocks, address, block),
              exception |-> "LibraryError"]
        ELSE [self |-> [pointed EXCEPT !.num_haplotypes = block.num_haplotypes,
                                       !.constructed = "ok"],
              library |-> Store(blocks, address, block),
              exception |-> NoException]

\* What a method call gives its caller: the exception raised or the value
\* returned, and whether the call read a library structure.
Result(method, ob, exception, value, read_library) ==
    [method |-> method, constructed |-> ob.constructed, exception |-> exception,
     value |-> value, read_library |-> read_library]

\* ReferencePanel_get_haplotypes; available says whether PyArray_SimpleNew
\* finds memory.  The array has the dimensions the object holds and is filled
\* from the library's haplotypes; what the structure of a failed alloc call
\* holds is not known.
ReferencePanel_get_haplotypes(ob, blocks, available) ==
    IF ReferencePanel_check_state(ob) # 0
    THEN Result("get_haplotypes", ob, "SystemError", NULL, FALSE)
    ELSE IF ~available
    THEN Result("get_haplotypes", ob, "MemoryError", NULL, FALSE)
    ELSE LET block == blocks[ob.reference_panel]
         IN  Result("get_haplotypes", ob, NoException,
                    [h \in 0 .. ob.num_haplotypes - 1 |->
                        IF block.allocated THEN block.haplotypes[h]
                        ELSE [l \in 0 .. ob.num_sites - 1 |-> INDETERMINATE]],
                    TRUE)

\* ReferencePanel_get_positions
ReferencePanel_get_positions(ob, blocks, available) ==
    IF ReferencePanel_check_state(ob) # 0
    THEN Result("get_positions", ob, "SystemError", NULL, FALSE)
    ELSE IF ~available
    THEN Result("get_positions", ob, "MemoryError", NULL, FALSE)
    ELSE LET block == blocks[ob.reference_panel]
         IN  Result("get_positions", ob, NoException,
                    [i \in 1 .. ob.num_sites + 2 |->
                        IF block.allocated THEN block.positions[i]
                        ELSE INDETERMINATE],
                    TRUE)

\* threader_alloc (library): the threader structure when it returns err.  On
\* success it refers to the panel structure and owns a traceback matrix T
\* that no run has filled yet.
threader_alloc(err, reference_panel) ==
    IF err # 0
    THEN [type |-> "threader_t", allocated |-> FALSE]
    ELSE [type |-> "threader_t", allocated |-> TRUE,
          reference_panel |-> reference_panel, T |-> INDETERMINATE]

\* Threader_check_state
Threader_check_state(ob, reference_panel) ==
    IF ob.threader = NULL THEN -1
    ELSE ReferencePanel_check_state(reference_panel)

\* Threader_init on the object ob; parsed says whether the argument is a
\* ReferencePanel object (reference_panel), err is what threader_alloc
\* returns and available whether PyMem_Malloc finds memory.
Threader_init(ob, blocks, parsed, reference_panel, available, err) ==
    LET cleared == [ob EXCEPT !.threader = NULL, !.reference_panel = NULL]
        failed(o, exception) ==
            [self |-> [o EXCEPT !.constructed = "failed"], library |-> blocks,
             exception |-> exception]
        referenced == [cleared EXCEPT !.reference_panel = ThePanel]
        address == PyMem_Malloc(blocks, available)
        pointed == [referenced EXCEPT !.threader = address]
        block == threader_alloc(err, reference_panel.reference_panel)
    IN  IF ~parsed THEN failed(cleared, "TypeError")
        ELSE IF ReferencePanel_check_state(reference_panel) # 0
        THEN failed(referenced, "SystemError")
        ELSE IF address = NULL THEN failed(referenced, "MemoryError")
        ELSE IF err # 0
        THEN [self |-> [pointed EXCEPT !.constructed = "failed"],
              library |-> Store(blocks, address, block),
              exception |-> "LibraryError"]
        ELSE [self |-> [pointed EXCEPT !.constructed = "ok"],
              library |-> Store(blocks, address, block),
              exception |-> NoException]

\* self->threader->reference_panel->num_haplotypes and ->num_sites as
\* Threader_run and Threader_get_traceback read them.  When the threader or
\* the panel structure comes from a failed alloc call the memory read is
\* indeterminate: it holds what garbage says.
PanelOfThreader(ob, blocks, garbage) ==
    LET threader == blocks[ob.threader]
        reference_panel ==
            IF threader.allocated THEN blocks[threader.reference_panel]
            ELSE [allocated |-> FALSE]
    IN  IF reference_panel.allocated
        THEN [num_haplotypes |-> reference_panel.num_haplotypes,
              num_sites |-> reference_panel.num_sites]
        ELSE garbage

\* Threader_get_traceback; available says whether PyArray_EMPTY finds memory.
Threader_get_traceback(ob, reference_panel, blocks, available, garbage) ==
    IF Threader_check_state(ob, reference_panel) # 0
    THEN Result("traceback", ob, "SystemError", NULL, FALSE)
    ELSE IF ~available
    THEN Result("traceback", ob, "MemoryError", NULL, TRUE)
    ELSE Result("traceback", ob, NoException,
                [N |-> PanelOfThreader(ob, blocks, garbage).num_haplotypes,
                 m |-> PanelOfThreader(ob, blocks, garbage).num_sites,
                 T |-> IF blocks[ob.threader].allocated
                       THEN blocks[ob.threader].T ELSE INDETERMINATE],
                TRUE)

\* A thread that is in no method call.
Idle == [pc |-> "idle"]

\* A thread has no result of a method call: it has called none yet, or it is
\* inside one.
NoResult == [method |-> "none", exception |-> NoException]

\* The ascending sequence of the members of a set of numbers.
RECURSIVE Ascending(_)
Ascending(S) ==
    IF S = {} THEN <<>>
    ELSE LET least == CHOOSE x \in S : \A y \in S : x <= y
         IN  <<least>> \o Ascending(S \ {least})

\* The arguments and the panel dimensions a run call saw, kept with its
\* result.
RunResult(ob, exception, value, read_library, args, dims) ==
    Result("run", ob, exception, value, read_library)
        @@ [args |-> args, dims |-> dims, entered |-> FALSE]

\* Threader_run up to Py_BEGIN_ALLOW_THREADS (lines 342-373): either the
\* result of a call that ends there, or the frame of a call that goes on to
\* threader_run, with the library blocks after the malloc of mutations.
Threader_run_begin(i, ob, reference_panel, blocks, path_arrays, args, available, garbage) ==
    LET dims == PanelOfThreader(ob, blocks, garbage)
        is_array == args.path \in DOMAIN path_arrays
        path_array == path_arrays[args.path]
        mutations == PyMem_Malloc(blocks, available)
        ended(exception, read_library) ==
            [entered |-> FALSE, library |-> blocks,
             result |-> RunResult(ob, exception, NULL, read_library, args,
                                  IF read_library THEN dims ELSE NULL)]
    IN  IF Threader_check_state(ob, reference_panel) # 0
        THEN ended("SystemError", FALSE)
        ELSE IF ~args.parsed THEN ended("TypeError", FALSE)
        ELSE IF args.haplotype_index >= dims.num_haplotypes
        THEN ended("ValueError", TRUE)
        ELSE IF ~is_array THEN ended("TypeError", TRUE)
        ELSE IF path_array.ndim # 1 THEN ended("ValueError", TRUE)
        ELSE IF path_array.shape[1] # dims.num_sites THEN ended("ValueError", TRUE)
        ELSE IF mutations = NULL THEN ended("MemoryError", TRUE)
        ELSE [entered |-> TRUE,
              library |-> Store(blocks, mutations,
                                [type |-> "mutations", data |-> INDETERMINATE]),
              frame |-> [pc |-> "threader_run",
                         self |-> i,
                         constructed |-> ob.constructed,
                         threader |-> ob.threader,
                         args |-> args,
                         dims |-> dims,
                         mutations |-> mutations,
                         num_mutations |-> INDETERMINATE,
                         err |-> INDETERMINATE,
                         completed |-> FALSE,
                         raced |-> FALSE]]

\* Whether a call of threader_run is one the library defines: both
\* structures are allocated, 1 <= panel_size <= num_haplotypes, and no other
\* call has worked on the same threader structure or the same path array
\* while this one was running.
Defined(frame, blocks) ==
    /\ ~frame.raced
    /\ blocks[frame.threader].allocated
    /\ blocks[blocks[frame.threader].reference_panel].allocated
    /\ 1 <= frame.args.panel_size
    /\ frame.args.panel_size
           <= blocks[blocks[frame.threader].reference_panel].num_haplotypes

\* The sites at which a copying path differs from the query.
MutationsOf(haplotypes, query, copying_path) ==
    Ascending({l \in DOMAIN copying_path :
                 haplotypes[copying_path[l]][l] # haplotypes[query][l]})

\* threader_run (library) returning 0 on a defined call: it fills T, writes
\* the copying path chosen (every site copies from one of the first
\* panel_size haplotypes) and lists the sites where the path differs from
\* the query in ascending order.
threader_run(frame, blocks, path_arrays, copying_path) ==
    LET reference_panel == blocks[blocks[frame.threader].reference_panel]
        mutations == MutationsOf(reference_panel.haplotypes,
                                 frame.args.haplotype_index, copying_path)
    IN  [frame |-> [frame EXCEPT !.pc = "returned", !.err = 0,
                                 !.num_mutations = Len(mutations),
                                 !.completed = TRUE],
         library |-> [blocks EXCEPT
                        ![frame.threader].T =
                            [haplotype_index |-> frame.args.haplotype_index,
                             panel_size |-> frame.args.panel_size],
                        ![frame.mutations].data = mutations],
         paths |-> [path_arrays EXCEPT ![frame.args.path].data = copying_path]]

\* threader_run (library) returning an error, or called outside what the
\* library defines: T and the path hold nothing that is known, and
\* num_mutations and the mutations block hold what was in memory.
threader_run_undefined(frame, blocks, path_arrays, err, garbage) ==
    [frame |-> [frame EXCEPT !.pc = "returned", !.err = err,
                             !.num_mutations = Len(garbage)],
     library |-> [blocks EXCEPT
                    ![frame.threader] =
                        IF @.allocated THEN [@ EXCEPT !.T = INDETERMINATE] ELSE @,
                    ![frame.mutations].data = garbage],
     paths |-> [path_arrays EXCEPT ![frame.args.path].data = INDETERMINATE]]

\* Threader_run from Py_END_ALLOW_THREADS on (lines 377-393); available says
\* whether PyArray_EMPTY finds memory.  The mutations block is not freed.
\* The result keeps what threader_run returned (err), whether it completed
\* its work, and the path array as the caller finds it.
Threader_run_end(frame, blocks, path_arrays, available) ==
    LET err == 0
        mutations == blocks[frame.mutations].data
        outcome ==
            IF err # 0 THEN [exception |-> "LibraryError", value |-> NULL]
            ELSE IF ~available THEN [exception |-> "MemoryError", value |-> NULL]
            ELSE [exception |-> NoException,
                  value |-> [k \in 1 .. frame.num_mutations |-> mutations[k]]]
    IN  [method |-> "run", constructed |-> frame.constructed,
         exception |-> outcome.exception, value |-> outcome.value,
         read_library |-> TRUE, args |-> frame.args, dims |-> frame.dims,
         entered |-> TRUE, err |-> frame.err, completed |-> frame.completed,
         path |-> path_arrays[frame.args.path].data]

----------------------------------------------------------------------------
(* The callers of the extension module: interpreter threads.  A thread      *)
(* holds the interpreter lock for the whole of a method call, so a call is  *)
(* one step, except that Threader_run gives the lock up around threader_run *)
(* (Py_BEGIN_ALLOW_THREADS .. Py_END_ALLOW_THREADS).                        *)

Threads == DOMAIN threads

\* The blocks that nothing refers to any more; memory is left for a new
\* block as long as fewer than MaxLeaked blocks are lost.
Leaked == {a \in 1 .. Len(library) : library[a].type = "leaked"}
MemoryLeft == Cardinality(Leaked) < MaxLeaked
\* The threads that are inside threader_run, without the interpreter lock.
InLibrary == {t \in Threads : threads[t].pc = "threader_run"}
ThreaderIds == DOMAIN threaders

\* What memory that nothing has set may hold where the panel dimensions are
\* read.
Garbage ==
    {[num_haplotypes |-> n, num_sites |-> m] :
        n \in {0, MaxPanelSamples + 2}, m \in {1, MaxPanelSites}}

\* What a call on the Threader object ob may find where it reads the panel
\* dimensions: garbage matters only when a structure of a failed alloc call is
\* read.
GarbageRead(ob) ==
    IF /\ ob.threader # NULL
       /\ \/ ~library[ob.threader].allocated
          \/ ~library[library[ob.threader].reference_panel].allocated
    THEN Garbage
    ELSE {CHOOSE garbage \in Garbage : TRUE}

\* What the mutations block and num_mutations may hold when threader_run has
\* not set them: no site number or one.
GarbageMutations(m) ==
    {<<>>} \cup {<<l>> : l \in 0 .. m - 1}

\* The arrays a caller passes as haplotypes: one that is not two-dimensional,
\* and the 0/1 matrices of up to MaxPanelSamples rows and MaxPanelSites
\* columns (also with no row or no column).
HaplotypeArrays ==
    {[ndim |-> 1, shape |-> <<1>>, data |-> <<>>]}
        \cup {[ndim |-> 2, shape |-> <<n, m>>, data |-> d] :
                 n \in {0}, m \in 0 .. MaxPanelSites, d \in {<<>>}}
        \cup UNION {UNION {{[ndim |-> 2, shape |-> <<n, m>>, data |-> d] :
                              d \in [0 .. n - 1 -> [0 .. m - 1 -> Alleles]]} :
                           m \in 0 .. MaxPanelSites} :
                    n \in 1 .. MaxPanelSamples}

\* The arrays a caller passes as positions: the site numbers 1 .. n, or a
\* two-dimensional array.
PositionArrays ==
    {[ndim |-> 1, shape |-> <<n>>, data |-> [i \in 1 .. n |-> i]] :
        n \in 0 .. MaxPanelSites}
        \cup {[ndim |-> 2, shape |-> <<1, 1>>, data |-> <<>>]}

\* The arguments of ReferencePanel(...).
PanelArguments ==
    {[parsed |-> FALSE]}
        \cup {[parsed |-> TRUE, array |-> a, positions |-> p,
               sequence_length |-> a.shape[Len(a.shape)] + 1] :
                 a \in HaplotypeArrays, p \in PositionArrays}

\* The arguments of run(...): path is the number of one of the callers'
\* arrays, or 0 for an object that is no array.  The query is the first
\* haplotype, the all-ones haplotype of the largest panel or the index after
\* it; the panel size is 0, 1, the size of the largest panel or one more.
RunArguments ==
    {[parsed |-> FALSE]}
        \cup {[parsed |-> TRUE, haplotype_index |-> h, panel_size |-> k, path |-> p] :
                 h \in {0, MaxPanelSamples + 1, MaxPanelSamples + 2},
                 k \in {0, 1, MaxPanelSamples + 2, MaxPanelSamples + 3},
                 p \in {0} \cup DOMAIN paths}

\* ReferencePanel(array, positions, sequence_length) by thread t.
PanelInit(t, args, available, err) ==
    /\ threads[t].pc = "idle"
    /\ panel.constructed = "no"
    /\ available => MemoryLeft
    /\ LET r == ReferencePanel_init(panel, library, args, available, err)
       IN  /\ panel' = r.self
           /\ library' = r.library
           /\ results' = [results EXCEPT ![t] =
                  Result("ReferencePanel", r.self, r.exception, NULL, FALSE)]
    /\ UNCHANGED <<threaders, threads, paths>>
    /\ UNCHANGED <<builder_vars, concurrent_vars>>

\* panel.get_haplotypes() by thread t.
GetHaplotypes(t, available) ==
    /\ threads[t].pc = "idle"
    /\ results' = [results EXCEPT ![t] =
           ReferencePanel_get_haplotypes(panel, library, available)]
    /\ UNCHANGED <<panel, threaders, library, threads, paths>>
    /\ UNCHANGED <<builder_vars, concurrent_vars>>

\* panel.get_positions() by thread t.
GetPositions(t, available) ==
    /\ threads[t].pc = "idle"
    /\ results' = [results EXCEPT ![t] =
           ReferencePanel_get_positions(panel, library, available)]
    /\ UNCHANGED <<panel, threaders, library, threads, paths>>
    /\ UNCHANGED <<builder_vars, concurrent_vars>>

\* Threader(panel) for the Threader object i by thread t; with parsed false
\* the argument is not a ReferencePanel.
ThreaderInit(t, i, parsed, available, err) ==
    /\ threads[t].pc = "idle"
    /\ threaders[i].constructed = "no"
    /\ available => MemoryLeft
    /\ LET r == Threader_init(threaders[i], library, parsed, panel, available, err)
       IN  /\ threaders' = [threaders EXCEPT ![i] = r.self]
           /\ library' = r.library
           /\ results' = [results EXCEPT ![t] =
                  Result("Threader", r.self, r.exception, NULL, FALSE)]
    /\ UNCHANGED <<panel, threads, paths>>
    /\ UNCHANGED <<builder_vars, concurrent_vars>>

\* Whether the call with frame f is inside threader_run and works there on
\* the threader structure or the path array that the call with frame g uses.
Overlaps(f, g) ==
    /\ f.pc = "threader_run"
    /\ \/ f.threader = g.threader
       \/ f.args.path = g.args.path

\* threader.run(...) on the Threader object i by thread t, up to the point
\* where it gives up the interpreter lock.  Entering threader_run while
\* another thread is inside it on the same threader structure or path array
\* is a data race for both calls.
RunBegin(t, i, args, available, garbage) ==
    /\ threads[t].pc = "idle"
    /\ available => MemoryLeft
    /\ LET r == Threader_run_begin(i, threaders[i], panel, library, paths, args,
                                   available, garbage)
       IN  /\ library' = r.library
           /\ IF r.entered
              THEN /\ threads' =
                          [u \in Threads |->
                              IF u = t
                              THEN [r.frame EXCEPT !.raced =
                                      \E v \in Threads \ {t} :
                                          Overlaps(threads[v], r.frame)]
                              ELSE IF Overlaps(threads[u], r.frame)
                              THEN [threads[u] EXCEPT !.raced = TRUE]
                              ELSE threads[u]]
                   /\ results' = [results EXCEPT ![t] = NoResult]
              ELSE /\ results' = [results EXCEPT ![t] = r.result]
                   /\ UNCHANGED threads
    /\ UNCHANGED <<panel, threaders, paths>>
    /\ UNCHANGED <<builder_vars, concurrent_vars>>

\* threader_run of thread t returns 0 on a defined call.
Hmm(t, copying_path) ==
    /\ threads[t].pc = "threader_run"
    /\ Defined(threads[t], library)
    /\ LET r == threader_run(threads[t], library, paths, copying_path)
       IN  /\ threads' = [threads EXCEPT ![t] = r.frame]
           /\ library' = r.library
           /\ paths' = r.paths
    /\ UNCHANGED <<panel, threaders, results>>
    /\ UNCHANGED <<builder_vars, concurrent_vars>>

\* threader_run of thread t fails, or returns from a call that the library
\* does not define.
HmmUndefined(t, err, garbage) ==
    /\ threads[t].pc = "threader_run"
    /\ err = 0 => ~Defined(threads[t], library)
    /\ LET r == threader_run_undefined(threads[t], library, paths, err, garbage)
       IN  /\ threads' = [threads EXCEPT ![t] = r.frame]
           /\ library' = r.library
           /\ paths' = r.paths
    /\ UNCHANGED <<panel, threaders, results>>
    /\ UNCHANGED <<builder_vars, concurrent_vars>>

\* threader.run(...) of thread t from the point where it has the interpreter
\* lock again.  The mutations block stays allocated; nothing refers to it any
\* more, so its content is dropped from the model.
RunEnd(t, available) ==
    /\ threads[t].pc = "returned"
    /\ results' = [results EXCEPT ![t] =
           Threader_run_end(threads[t], library, paths, available)]
    /\ library' = [library EXCEPT ![threads[t].mutations] =
                      [type |-> "leaked"]]
    /\ threads' = [threads EXCEPT ![t] = Idle]
    /\ UNCHANGED <<panel, threaders, paths>>
    /\ UNCHANGED <<builder_vars, concurrent_vars>>

\* threader.traceback on the Threader object i by thread t.
GetTraceback(t, i, available, garbage) ==
    /\ threads[t].pc = "idle"
    /\ results' = [results EXCEPT ![t] =
           Threader_get_traceback(threaders[i], panel, library, available, garbage)]
    /\ UNCHANGED <<panel, threaders, library, threads, paths>>
    /\ UNCHANGED <<builder_vars, concurrent_vars>>

\* No builder is in use.
NoBuilder ==
    /\ self = NULL
    /\ finalised = FALSE
    /\ calls = <<>>
    /\ focal = -1
    /\ ancestor = <<>>
    /\ ret_start = 0
    /\ ret_end = 0
    /\ ret = 0

\* The callers' path arrays of the single-threaded run: zero-filled arrays of
\* 1 .. MaxPanelSites entries, and a two-dimensional array.
PathArrays ==
    [p \in 1 .. MaxPanelSites + 1 |->
        IF p <= MaxPanelSites
        THEN [ndim |-> 1, shape |-> <<p>>, data |-> [l \in 0 .. p - 1 |-> 0]]
        ELSE [ndim |-> 2, shape |-> <<1, 1>>, data |-> <<>>]]

\* One thread, a new ReferencePanel object and a new Threader object.
InitModule ==
    /\ NoBuilder
    /\ NoConcurrentCalls
    /\ panel = NewReferencePanel
    /\ threaders = [i \in 1 .. 1 |-> NewThreader]
    /\ library = <<>>
    /\ threads = [t \in 1 .. 1 |-> Idle]
    /\ paths = PathArrays
    /\ results = [t \in 1 .. 1 |-> NoResult]

NextModule ==
    \/ \E t \in Threads, args \in PanelArguments, available \in BOOLEAN,
          err \in {0, TSI_ERR_NO_MEMORY} :
           PanelInit(t, args, available, err)
    \/ \E t \in Threads, available \in BOOLEAN : GetHaplotypes(t, available)
    \/ \E t \in Threads, available \in BOOLEAN : GetPositions(t, available)
    \/ \E t \in Threads, i \in ThreaderIds, parsed \in BOOLEAN,
          available \in BOOLEAN, err \in {0, TSI_ERR_NO_MEMORY} :
           ThreaderInit(t, i, parsed, available, err)
    \/ \E t \in Threads, i \in ThreaderIds, args \in RunArguments,
          available \in BOOLEAN :
           \E garbage \in GarbageRead(threaders[i]) :
               RunBegin(t, i, args, available, garbage)
    \/ \E t \in InLibrary :
           \E copying_path \in [0 .. threads[t].dims.num_sites - 1
                                   -> 0 .. threads[t].args.panel_size - 1] :
               Hmm(t, copying_path)
    \/ \E t \in InLibrary, err \in {0, TSI_ERR_NO_MEMORY} :
           \E garbage \in GarbageMutations(threads[t].dims.num_sites) :
               HmmUndefined(t, err, garbage)
    \/ \E t \in Threads, available \in BOOLEAN : RunEnd(t, available)
    \/ \E t \in Threads, i \in ThreaderIds, available \in BOOLEAN :
           \E garbage \in GarbageRead(threaders[i]) :
               GetTraceback(t, i, available, garbage)

\* The objects of the extension module used by one thread.
SpecModule == InitModule /\ [][NextModule]_vars

\* The panels that two threads share: one haplotype that carries the derived
\* allele at each of its 1 .. MaxPanelSites sites.
SharedPanelArguments ==
    {args \in PanelArguments :
        /\ args.parsed
        /\ args.array.ndim = 2
        /\ args.array.shape[1] = 1
        /\ args.array.shape[2] >= 1
        /\ \A l \in 0 .. args.array.shape[2] - 1 : args.array.data[0][l] = 1
        /\ args.positions.ndim = 1
        /\ args.positions.shape[1] = args.array.shape[2]}

\* The arguments of the run calls of the two threads: the second haplotype as
\* query against the first haplotype, with either path array.
RunArgumentsThreads ==
    {[parsed |-> TRUE, haplotype_index |-> 1, panel_size |-> 1, path |-> p] :
        p \in DOMAIN paths}

\* Two threads, a constructed ReferencePanel object and two Threader objects
\* constructed over it, and two path arrays of num_sites entries.
InitThreads ==
    /\ NoBuilder
    /\ NoConcurrentCalls
    /\ \E args \in SharedPanelArguments :
           LET p == ReferencePanel_init(NewReferencePanel, <<>>, args, TRUE, 0)
               first == Threader_init(NewThreader, p.library, TRUE, p.self, TRUE, 0)
               second == Threader_init(NewThreader, first.library, TRUE, p.self,
                                       TRUE, 0)
           IN  /\ panel = p.self
               /\ threaders = <<first.self, second.self>>
               /\ library = second.library
               /\ paths = [a \in 1 .. 2 |->
                              [ndim |-> 1, shape |-> <<p.self.num_sites>>,
                               data |-> [l \in 0 .. p.self.num_sites - 1 |-> 0]]]
    /\ threads = [t \in 1 .. 2 |-> Idle]
    /\ results = [t \in 1 .. 2 |-> NoResult]

NextThreads ==
    \/ \E t \in Threads, i \in ThreaderIds, args \in RunArgumentsThreads,
          available \in BOOLEAN :
           \E garbage \in GarbageRead(threaders[i]) :
               RunBegin(t, i, args, available, garbage)
    \/ \E t \in InLibrary :
           \E copying_path \in [0 .. threads[t].dims.num_sites - 1
                                   -> 0 .. threads[t].args.panel_size - 1] :
               Hmm(t, copying_path)
    \/ \E t \in InLibrary, err \in {0, TSI_ERR_NO_MEMORY} :
           \E garbage \in GarbageMutations(threads[t].dims.num_sites) :
               HmmUndefined(t, err, garbage)
    \/ \E t \in Threads, available \in BOOLEAN : RunEnd(t, available)

\* Two threads that call run on two Threader objects over one panel.
SpecThreads == InitThreads /\ [][NextThreads]_vars

----------------------------------------------------------------------------
(* Two make_ancestor calls on one finalised builder, interleaved.  A call   *)
(* keeps its local variables in its frame, its scratch buffers on the heap  *)
(* and writes the caller's buffers outputs[c].                              *)

\* A heap block that is not allocated.
FreeBlock == [kind |-> "free"]

\* malloc with one static buffer per use: a block of this kind that is
\* already allocated is handed out again.
malloc_static(blocks, kind) ==
    IF \E a \in 1 .. Len(blocks) : blocks[a].kind = kind
    THEN CHOOSE a \in 1 .. Len(blocks) : blocks[a].kind = kind
    ELSE IF \E a \in 1 .. Len(blocks) : blocks[a] = FreeBlock
    THEN CHOOSE a \in 1 .. Len(blocks) :
             /\ blocks[a] = FreeBlock
             /\ \A x \in 1 .. a - 1 : blocks[x] # FreeBlock
    ELSE Len(blocks) + 1

\* malloc / calloc: the address of a block that is not in use (the first free
\* one, or a new one); kind says what the caller uses the block for.
malloc(blocks, kind) ==
    IF \E a \in 1 .. Len(blocks) : blocks[a] = FreeBlock
    THEN CHOOSE a \in 1 .. Len(blocks) :
             /\ blocks[a] = FreeBlock
             /\ \A x \in 1 .. a - 1 : blocks[x] # FreeBlock
    ELSE Len(blocks) + 1

\* tsi_safe_free
tsi_safe_free(blocks, address) ==
    [blocks EXCEPT ![address] = FreeBlock]

\* A call that has not started.
NotCalled == [pc |-> "not called"]

\* The entry of ancestor_builder_compute_older_sites in the call with frame
\* f: older_sites and sample_set have been filled by the caller, disagree is
\* calloc'ed.
compute_older_sites_entry(b, f, blocks, older_sites) ==
    LET sample_set == ancestor_builder_get_consistent_samples(b, f.focal_site)
        filled == [blocks EXCEPT
                     ![f.older_sites].data = older_sites,
                     ![f.sample_set].data = sample_set]
        st == older_sites_begin(b, f.focal_site, <<>>, sample_set)
        disagree == malloc(filled, "disagree")
    IN  [frame |-> [f EXCEPT !.num_older_sites = Len(older_sites),
                             !.j = 0,
                             !.min_sample_set_size = st.min_sample_set_size,
                             !.last_site = st.last_site,
                             !.disagree = disagree],
         heap |-> Store(filled, disagree,
                        [kind |-> "disagree", data |-> st.disagree])]

\* ancestor_builder_make_ancestor up to the loop of the rightward
\* compute_older_sites call (lines 316-346 and 237-251); out is the caller's
\* buffers.
make_ancestor_entry(b, focal_site, blocks, out) ==
    LET older_sites == malloc(blocks, "older_sites")
        h1 == Store(blocks, older_sites, [kind |-> "older_sites", data |-> <<>>])
        sample_set == malloc(h1, "sample_set")
        h2 == Store(h1, sample_set, [kind |-> "sample_set", data |-> <<>>])
        cleared == [l \in 0 .. b.num_sites - 1 |->
                      IF l = focal_site THEN 1 ELSE UNKNOWN]
        f == [pc |-> "right", focal_site |-> focal_site,
              older_sites |-> older_sites, sample_set |-> sample_set,
              disagree |-> NULL, num_older_sites |-> 0, j |-> 0,
              min_sample_set_size |-> 0, last_site |-> focal_site]
        entered == compute_older_sites_entry(b, f, h2,
                       older_sites_right(b, focal_site, focal_site + 1))
    IN  [frame |-> entered.frame, heap |-> entered.heap,
         out |-> [out EXCEPT !.ancestor = cleared]]

\* Whether the loop over older_sites of the call with frame f goes on.
InLoop(f) ==
    /\ f.pc \in {"right", "left"}
    /\ f.j < f.num_older_sites

\* One iteration of the loop over older_sites in the call with frame f, on
\* the scratch buffers the frame points to; a break ends the loop.
older_site_iteration(b, f, blocks, out) ==
    LET l == blocks[f.older_sites].data[f.j + 1]
        st == [sample_set |-> blocks[f.sample_set].data,
               min_sample_set_size |-> f.min_sample_set_size,
               disagree |-> blocks[f.disagree].data,
               ancestor |-> out.ancestor,
               last_site |-> f.last_site,
               stopped |-> FALSE]
        after == older_site_step(b, st, l)
    IN  [frame |-> [f EXCEPT !.j = IF after.stopped THEN f.num_older_sites
                                   ELSE f.j + 1,
                             !.last_site = after.last_site],
         heap |-> [blocks EXCEPT ![f.sample_set].data = after.sample_set,
                                 ![f.disagree].data = after.disagree],
         out |-> [out EXCEPT !.ancestor = after.ancestor]]

\* From the end of the rightward loop to the loop of the leftward
\* compute_older_sites call (lines 301-304, 350-372).
make_ancestor_turn(b, f, blocks, out) ==
    LET freed == tsi_safe_free(blocks, f.disagree)
        entered == compute_older_sites_entry(b, [f EXCEPT !.pc = "left"], freed,
                       older_sites_left(b, f.focal_site, f.focal_site - 1))
    IN  [frame |-> entered.frame, heap |-> entered.heap,
         out |-> [out EXCEPT
                    !.ancestor = fill_younger_sites(b, f.focal_site, @,
                                                    f.focal_site, f.last_site),
                    !.ret_end = f.last_site + 1]]

\* From the end of the leftward loop to the return (lines 301-304, 373-417).
make_ancestor_return(b, f, blocks, out) ==
    [frame |-> [f EXCEPT !.pc = "done"],
     heap |-> tsi_safe_free(tsi_safe_free(tsi_safe_free(blocks, f.disagree),
                                          f.older_sites), f.sample_set),
     out |-> [out EXCEPT
                !.ancestor = fill_younger_sites(b, f.focal_site, @,
                                                f.last_site, f.focal_site),
                !.ret_start = f.last_site]]

Callers == DOMAIN frames

\* The step of call c leaves r.
Stepped(c, r) ==
    /\ frames' = [frames EXCEPT ![c] = r.frame]
    /\ heap' = r.heap
    /\ outputs' = [outputs EXCEPT ![c] = r.out]
    /\ UNCHANGED <<builder_vars, module_vars>>

\* Caller c calls make_ancestor on the focal site of descriptor j.
EnterMakeAncestor(c, j) ==
    /\ frames[c] = NotCalled
    /\ j < self.num_ancestors
    /\ self.descriptors[j].num_focal_sites = 1
    /\ Stepped(c, make_ancestor_entry(self, self.descriptors[j].focal_sites[1],
                                      heap, outputs[c]))

\* The call of caller c runs one iteration of its loop over older_sites.
OlderSite(c) ==
    /\ InLoop(frames[c])
    /\ Stepped(c, older_site_iteration(self, frames[c], heap, outputs[c]))

\* The call of caller c ends its rightward pass and starts the leftward one.
TurnLeft(c) ==
    /\ frames[c].pc = "right"
    /\ ~InLoop(frames[c])
    /\ Stepped(c, make_ancestor_turn(self, frames[c], heap, outputs[c]))

\* The call of caller c returns.
ReturnMakeAncestor(c) ==
    /\ frames[c].pc = "left"
    /\ ~InLoop(frames[c])
    /\ Stepped(c, make_ancestor_return(self, frames[c], heap, outputs[c]))

\* The builder after add_site for every column, in genomic order.
RECURSIVE Filled(_, _, _)
Filled(b, columns, l) ==
    IF l = 0 THEN b
    ELSE ancestor_builder_add_site(Filled(b, columns, l - 1), l - 1,
                                   Ones(columns[l - 1]), columns[l - 1])

\* A finalised builder, and two callers with an output buffer each that have
\* not called make_ancestor yet.
InitConcurrent ==
    /\ \E num_samples \in 2 .. MaxSamplesConcurrent,
          num_sites \in 1 .. MaxSitesConcurrent :
           \E columns \in [0 .. num_sites - 1 -> Genotypes(num_samples)] :
               /\ self = ancestor_builder_finalise(
                             Filled(ancestor_builder_alloc(num_samples, num_sites),
                                    columns, num_sites))
               /\ calls = [i \in 1 .. num_sites |->
                              [site |-> i - 1, frequency |-> Ones(columns[i - 1]),
                               genotypes |-> columns[i - 1]]]
               /\ ancestor = [l \in 0 .. num_sites - 1 |-> 0]
               /\ outputs = [c \in 1 .. 2 |->
                               [ancestor |-> [l \in 0 .. num_sites - 1 |-> 0],
                                ret_start |-> 0, ret_end |-> 0]]
    /\ finalised = TRUE
    /\ focal = -1
    /\ ret_start = 0
    /\ ret_end = 0
    /\ ret = 0
    /\ frames = [c \in 1 .. 2 |-> NotCalled]
    /\ heap = <<>>
    /\ NoModule

NextConcurrent ==
    \/ \E c \in Callers, j \in 0 .. self.num_sites - 1 : EnterMakeAncestor(c, j)
    \/ \E c \in Callers : OlderSite(c)
    \/ \E c \in Callers : TurnLeft(c)
    \/ \E c \in Callers : ReturnMakeAncestor(c)

\* Two make_ancestor calls on a finalised builder, in any interleaving.
SpecConcurrent == InitConcurrent /\ [][NextConcurrent]_vars

----------------------------------------------------------------------------
(* A caller that passes add_site any frequency up to num_samples, whatever  *)
(* the column holds.                                                        *)

\* add_site(l, frequency, genotypes) for the next site in genomic order.
AddSiteWithFrequency(frequency, genotypes) ==
    /\ ~finalised
    /\ Len(calls) < self.num_sites
    /\ frequency <= self.num_samples
    /\ self' = ancestor_builder_add_site(self, Len(calls), frequency, genotypes)
    /\ calls' = Append(calls, [site |-> Len(calls), frequency |-> frequency,
                               genotypes |-> genotypes])
    /\ ret' = 0
    /\ UNCHANGED <<finalised, focal, ancestor, ret_start, ret_end>>
    /\ UNCHANGED <<concurrent_vars, module_vars>>

InitAnyFrequency ==
    \E num_samples \in 2 .. MaxSamplesAnyFrequency,
       num_sites \in 0 .. MaxSitesAnyFrequency :
        Allocated(num_samples, num_sites)

NextAnyFrequency ==
    \/ \E frequency \in 0 .. self.num_samples,
          genotypes \in Genotypes(self.num_samples) :
           AddSiteWithFrequency(frequency, genotypes)
    \/ Finalise
    \/ \E j \in 0 .. self.num_sites - 1 : MakeAncestor(j)

\* The life of a builder whose caller meets the preconditions of add_site
\* that are asserted there (l < num_sites, frequency <= num_samples).
SpecAnyFrequency == InitAnyFrequency /\ [][NextAnyFrequency]_vars

----------------------------------------------------------------------------
(* add_site calls in which one block_allocator_get call returns NULL.       *)

\* The arena allocations of one add_site call, in the order they are made:
\* the tree node, the map element and the genotypes copy of a new pattern,
\* then the node of the site list.
ArenaAllocations == <<"avl_node", "map_elem", "genotypes", "list_node">>

\* Whether add_site(l, frequency, genotypes) on b makes the allocation
\* named: none for frequency <= 1, and the first three only for a new
\* pattern.
Allocates(b, frequency, genotypes, allocation) ==
    /\ frequency > 1
    /\ allocation # "list_node" =>
           avl_search(b, b.frequency_map[frequency], genotypes) = NULL

\* The builder after ancestor_builder_add_site(self, l, frequency, genotypes)
\* returned TSI_ERR_NO_MEMORY because the allocation named by failed returned
\* NULL; garbage is what the memory of a genotypes buffer that was allocated
\* but not written holds.
ancestor_builder_add_site_no_memory(b, l, frequency, genotypes, failed, garbage) ==
    LET pattern_map == b.frequency_map[frequency]
        avl_node == avl_search(b, pattern_map, genotypes)
        recorded == [b EXCEPT !.sites[l].frequency = frequency]
    IN  IF avl_node = NULL
        THEN IF failed = "genotypes"
             THEN \* site->genotypes = NULL, "goto out"
                  [recorded EXCEPT !.sites[l].genotypes = NULL]
             ELSE IF failed \in {"avl_node", "map_elem"}
             THEN \* site->genotypes points to the new buffer, "goto out"
                  \* before the memcpy
                  LET allocator == Append(b.allocator, garbage)
                  IN  [recorded EXCEPT !.allocator = allocator,
                                       !.sites[l].genotypes = Len(allocator)]
             ELSE \* the item is inserted and counted, "goto out" before the
                  \* list node is linked
                  LET allocator == Append(b.allocator, genotypes)
                      copy == Len(allocator)
                      b1 == [recorded EXCEPT !.allocator = allocator]
                      map_elem == [genotypes |-> copy, num_sites |-> 1,
                                   sites |-> <<>>]
                  IN  [b1 EXCEPT !.sites[l].genotypes = copy,
                                 !.frequency_map[frequency] =
                                     avl_insert_node(b1, pattern_map, map_elem)]
        ELSE \* a known pattern: the site is counted, "goto out" before the
             \* list node is linked
             [recorded EXCEPT
                !.sites[l].genotypes = pattern_map[avl_node].genotypes,
                !.frequency_map[frequency][avl_node].num_sites = @ + 1]

\* add_site for the next site in genomic order, with one of its allocations
\* failing.
AddSiteNoMemory(genotypes, failed, garbage) ==
    /\ ~finalised
    /\ Len(calls) < self.num_sites
    /\ Allocates(self, Ones(genotypes), genotypes, failed)
    /\ self' = ancestor_builder_add_site_no_memory(self, Len(calls),
                    Ones(genotypes), genotypes, failed, garbage)
    /\ ret' = TSI_ERR_NO_MEMORY
    /\ UNCHANGED <<finalised, calls, focal, ancestor, ret_start, ret_end>>
    /\ UNCHANGED <<concurrent_vars, module_vars>>

InitAddSiteNoMemory ==
    \E num_samples \in 2 .. MaxSamplesAddSiteNoMemory,
       num_sites \in 0 .. MaxSitesAddSiteNoMemory :
        Allocated(num_samples, num_sites)

\* The caller gives the builder up when a call has returned an error.
NextAddSiteNoMemory ==
    \/ \E genotypes \in Genotypes(self.num_samples) :
           ret = 0 /\ AddNextSite(genotypes)
    \/ \E genotypes \in Genotypes(self.num_samples),
          a \in 1 .. Len(ArenaAllocations),
          garbage \in Genotypes(self.num_samples) :
           ret = 0 /\ AddSiteNoMemory(genotypes, ArenaAllocations[a], garbage)
    \/ ret = 0 /\ Finalise

\* Filling a builder whose add_site calls may run out of memory.
SpecAddSiteNoMemory == InitAddSiteNoMemory /\ [][NextAddSiteNoMemory]_vars

----------------------------------------------------------------------------
(* Properties *)

Sites == 0 .. self.num_sites - 1
Samples == 0 .. self.num_samples - 1

\* C1: after make_ancestor on the focal site of an emitted descriptor,
\* start <= focal_site < end, ancestor[focal_site] = 1, every index outside
\* [start, end) holds UNKNOWN and every index inside holds 0 or 1.
C1_MakeAncestorContract ==
    focal # -1 =>
        /\ ret_start <= focal
        /\ focal < ret_end
        /\ ancestor[focal] = 1
        /\ \A i \in Sites :
              IF ret_start <= i /\ i < ret_end
              THEN ancestor[i] \in {0, 1}
              ELSE ancestor[i] = UNKNOWN

\* A make_ancestor call that wrote 0 at a site inside [start, end) and left
\* another site UNKNOWN.
C1_Witness ==
    /\ focal # -1
    /\ \E i \in Sites : i # focal /\ ret_start <= i /\ i < ret_end /\ ancestor[i] = 0
    /\ \E i \in Sites : ~(ret_start <= i /\ i < ret_end) /\ ancestor[i] = UNKNOWN

\* The descriptors emitted by finalise and the focal sites each one lists.
Descriptors == 0 .. self.num_ancestors - 1
FocalSitesOf(j) ==
    SubSeq(self.descriptors[j].focal_sites, 1, self.descriptors[j].num_focal_sites)

\* How often site l is listed as a focal site over all descriptors.
Occurrences(l) ==
    Cardinality({jk \in Descriptors \X (1 .. self.num_sites) :
                   /\ jk[2] <= Len(FocalSitesOf(jk[1]))
                   /\ FocalSitesOf(jk[1])[jk[2]] = l})

\* The add_site calls made with a frequency of at least 2.
PatternCalls == {i \in 1 .. Len(calls) : calls[i].frequency >= 2}
\* The number of the add_site call for site l.
CallOf(l) == CHOOSE i \in 1 .. Len(calls) : calls[i].site = l

\* C2: after finalise, every site added with frequency >= 2 is a focal site
\* exactly once over all descriptors, and a site added with frequency 0 or 1,
\* or never added, is in no descriptor.
C2_FocalSitesOnce ==
    finalised =>
        \A l \in Sites :
            Occurrences(l) =
                IF l \in Added /\ calls[CallOf(l)].frequency >= 2 THEN 1 ELSE 0

\* Finalised with a site of frequency >= 2, a site of frequency <= 1 and a
\* site never added.
C2_Witness ==
    /\ finalised
    /\ \E i \in PatternCalls : TRUE
    /\ \E i \in 1 .. Len(calls) : calls[i].frequency <= 1
    /\ \E l \in Sites : l \notin Added

\* C3: after finalise the descriptor frequencies are non-increasing, and each
\* is in 2 .. num_samples.
C3_FrequencyOrder ==
    finalised =>
        /\ \A i \in Descriptors :
              i + 1 < self.num_ancestors =>
                  self.descriptors[i].frequency >= self.descriptors[i + 1].frequency
        /\ \A i \in Descriptors :
              self.descriptors[i].frequency \in 2 .. self.num_samples

\* Finalised with three descriptors: a frequency drop, then an equal pair.
C3_Witness ==
    /\ finalised
    /\ self.num_ancestors = 3
    /\ self.descriptors[0].frequency > self.descriptors[1].frequency
    /\ self.descriptors[1].frequency = self.descriptors[2].frequency

\* The sites linked to a pattern map item.
ItemSites(map_elem) == {map_elem.sites[k] : k \in 1 .. Len(map_elem.sites)}

\* C4: after finalise every descriptor has exactly one focal site, and an
\* item shared by n sites gives n descriptors of the item's frequency, one
\* for each of its sites.
C4_OneFocalSite ==
    finalised =>
        /\ \A j \in Descriptors : self.descriptors[j].num_focal_sites = 1
        /\ \A f \in 2 .. self.num_samples :
              \A e \in 1 .. Len(self.frequency_map[f]) :
                  LET map_elem == self.frequency_map[f][e]
                      of_item == {j \in Descriptors :
                                    \E k \in 1 .. Len(FocalSitesOf(j)) :
                                        FocalSitesOf(j)[k] \in ItemSites(map_elem)}
                  IN  /\ Cardinality(of_item) = map_elem.num_sites
                      /\ \A j \in of_item : self.descriptors[j].frequency = f
                      /\ \A l \in ItemSites(map_elem) :
                            \E j \in of_item : FocalSitesOf(j) = <<l>>

\* Finalised with an item that three sites share.
C4_Witness ==
    /\ finalised
    /\ \E f \in 2 .. self.num_samples :
          \E e \in 1 .. Len(self.frequency_map[f]) :
              self.frequency_map[f][e].num_sites = 3

\* The places <<descriptor, position>> of the emitted focal sites, in the
\* order a walk over the descriptors meets them.
Places == {jk \in Descriptors \X (1 .. self.num_sites) :
             jk[2] <= Len(FocalSitesOf(jk[1]))}
Before(p, q) == p[1] < q[1] \/ (p[1] = q[1] /\ p[2] < q[2])
SiteAt(p) == FocalSitesOf(p[1])[p[2]]

\* Byte-wise lexicographic order on genotype columns.
LexLeq(a, b) ==
    \/ a = b
    \/ \E i \in DOMAIN a :
          /\ a[i] < b[i]
          /\ \A k \in DOMAIN a : k < i => a[k] = b[k]

\* Descriptors of equal frequency follow the lexicographic order of their
\* patterns.
PatternOrder ==
    \A p, q \in Places :
        (/\ Before(p, q)
         /\ self.descriptors[p[1]].frequency = self.descriptors[q[1]].frequency)
            => LexLeq(site_genotypes(self, SiteAt(p)), site_genotypes(self, SiteAt(q)))

\* Two places whose focal sites belong to the same pattern map item.
SameItem(p, q) ==
    self.sites[SiteAt(p)].genotypes = self.sites[SiteAt(q)].genotypes

\* C5 as stated: after finalise, whatever the order of the add_site calls,
\* descriptors of equal frequency are in lexicographic pattern order and the
\* focal sites of one item are listed in ascending SiteId order.
C5_AscendingSiteOrder ==
    finalised =>
        /\ PatternOrder
        /\ \A p, q \in Places :
              (Before(p, q) /\ SameItem(p, q)) => SiteAt(p) < SiteAt(q)

\* C5 as amended: after finalise, descriptors of equal frequency are in
\* lexicographic pattern order and the focal sites of one item are listed in
\* the order of their add_site calls.
C5_CallOrder ==
    finalised =>
        /\ PatternOrder
        /\ \A p, q \in Places :
              (Before(p, q) /\ SameItem(p, q)) => CallOf(SiteAt(p)) < CallOf(SiteAt(q))

\* Finalised with two patterns of one frequency, one of them shared by two
\* sites that were added in descending SiteId order.
C5_Witness ==
    /\ finalised
    /\ \E p, q \in Places :
          /\ Before(p, q)
          /\ SameItem(p, q)
          /\ SiteAt(p) > SiteAt(q)
    /\ \E p, q \in Places :
          /\ Before(p, q)
          /\ ~SameItem(p, q)
          /\ self.descriptors[p[1]].frequency = self.descriptors[q[1]].frequency

\* The first add_site call that passed the column g with frequency >= 2.
FirstCall(g) ==
    CHOOSE i \in PatternCalls :
        /\ calls[i].genotypes = g
        /\ \A k \in PatternCalls : calls[k].genotypes = g => i <= k

\* The arena buffer allocated by call i, when call i was the first of its
\* pattern: buffers are allocated one per such call, in call order.
BufferOfFirstCall(i) ==
    Cardinality({k \in PatternCalls :
                   k <= i /\ FirstCall(calls[k].genotypes) = k})

\* The items <<f, e, k>> whose site list names site l at position k.
Listings(l) ==
    {fek \in (0 .. self.num_samples) \X (1 .. self.num_sites) \X (1 .. self.num_sites) :
        /\ fek[2] <= Len(self.frequency_map[fek[1]])
        /\ fek[3] <= Len(self.frequency_map[fek[1]][fek[2]].sites)
        /\ self.frequency_map[fek[1]][fek[2]].sites[fek[3]] = l}

C7_BucketConsistency ==
    \A f \in 0 .. self.num_samples :
        \A e \in 1 .. Len(self.frequency_map[f]) :
            LET map_elem == self.frequency_map[f][e]
            IN  /\ \A l \in ItemSites(map_elem) :
                      /\ self.sites[l].frequency = f
                      /\ self.sites[l].genotypes = map_elem.genotypes
                /\ map_elem.num_sites = Len(map_elem.sites)

\* Two buckets in use, one of them with an item of two sites.
C7_Witness ==
    \E f, g \in 0 .. self.num_samples :
        /\ f # g
        /\ Len(self.frequency_map[f]) > 0
        /\ \E e \in 1 .. Len(self.frequency_map[g]) :
              Len(self.frequency_map[g][e].sites) = 2

\* The column passed to add_site for site l.
Column(l) == calls[CallOf(l)].genotypes

\* The two passes of the last make_ancestor call, each given by its list of
\* older sites: rightwards (ascending) and leftwards (descending).
Passes ==
    {older_sites_right(self, focal, focal + 1),
     older_sites_left(self, focal, focal - 1)}

\* The state of compute_older_sites after n iterations over older_sites.
LoopAt(older_sites, n) ==
    older_sites_loop(self,
        older_sites_begin(self, focal, [l \in Sites |-> UNKNOWN],
            ancestor_builder_get_consistent_samples(self, focal)),
        older_sites, n)

\* The working sample set after n iterations.
WorkingSet(older_sites, n) ==
    LET sample_set == LoopAt(older_sites, n).sample_set
    IN  {sample_set[k] : k \in 1 .. Len(sample_set)}

\* The iterations that run: the loop has not stopped before them.
Iterations(older_sites) ==
    {n \in 1 .. Len(older_sites) : ~LoopAt(older_sites, n - 1).stopped}

\* The iterations that write ancestor[older_sites[n]].
Written(older_sites) ==
    {n \in Iterations(older_sites) : ~LoopAt(older_sites, n).stopped}

\* The majority allele of site l over the samples S; a tie gives 1.
Majority(l, S) ==
    IF Cardinality({u \in S : Column(l)[u] = 1})
           >= Cardinality({u \in S : Column(l)[u] = 0})
    THEN 1 ELSE 0

Disagrees(u, l, S) == Column(l)[u] # Majority(l, S)

\* The samples dropped from the working set in iteration n.
Removed(older_sites, n) ==
    WorkingSet(older_sites, n - 1) \ WorkingSet(older_sites, n)

\* C8: in compute_older_sites a sample is removed at an older site only if
\* it differs from the consensus there and differed from the consensus at
\* the older site processed just before in the same pass; a sample that
\* agrees at a site stays in the set there.
C8_TwoStrikes ==
    focal # -1 =>
        \A older_sites \in Passes :
            \A n \in Iterations(older_sites) :
                /\ \A u \in Removed(older_sites, n) :
                      /\ Disagrees(u, older_sites[n], WorkingSet(older_sites, n - 1))
                      /\ n >= 2
                      /\ Disagrees(u, older_sites[n - 1], WorkingSet(older_sites, n - 2))
                /\ \A u \in WorkingSet(older_sites, n - 1) :
                      ~Disagrees(u, older_sites[n], WorkingSet(older_sites, n - 1))
                          => u \in WorkingSet(older_sites, n)

\* A make_ancestor call in which a sample was removed at an older site that
\* was then written: the removal did not stop the pass.
C8_Witness ==
    /\ focal # -1
    /\ \E older_sites \in Passes :
          \E n \in Written(older_sites) : Removed(older_sites, n) # {}

\* C9: at every older site that make_ancestor writes, the value is 1 exactly
\* when, over the working set on entry to the site, the samples carrying 1
\* are at least as many as those carrying 0, and 0 otherwise.
C9_ConsensusRule ==
    focal # -1 =>
        \A older_sites \in Passes :
            \A n \in Written(older_sites) :
                ancestor[older_sites[n]]
                    = Majority(older_sites[n], WorkingSet(older_sites, n - 1))

\* A make_ancestor call that wrote an older site on an exact tie.
C9_Witness ==
    /\ focal # -1
    /\ \E older_sites \in Passes :
          \E n \in Written(older_sites) :
              LET S == WorkingSet(older_sites, n - 1)
                  l == older_sites[n]
              IN  /\ Cardinality({u \in S : Column(l)[u] = 1})
                        = Cardinality({u \in S : Column(l)[u] = 0})
                  /\ ancestor[l] = 1

\* The scenario of C10: 3 samples, 3 sites, sites 0, 1, 2 added with
\* frequencies 2, 3, 2 and columns [1,1,0], [1,1,1], [1,1,0], finalised, and
\* make_ancestor called for focal site 0.
C10_Scenario ==
    /\ self.num_samples = 3
    /\ self.num_sites = 3
    /\ calls = << [site |-> 0, frequency |-> 2, genotypes |-> (0 :> 1 @@ 1 :> 1 @@ 2 :> 0)],
                  [site |-> 1, frequency |-> 3, genotypes |-> (0 :> 1 @@ 1 :> 1 @@ 2 :> 1)],
                  [site |-> 2, frequency |-> 2, genotypes |-> (0 :> 1 @@ 1 :> 1 @@ 2 :> 0)] >>
    /\ finalised
    /\ focal = 0

\* C10 as stated: in the scenario make_ancestor yields ancestor = [1, 1, 0],
\* start = 0, end = 2.
C10_ScenarioAsStated ==
    C10_Scenario =>
        /\ ancestor = (0 :> 1 @@ 1 :> 1 @@ 2 :> 0)
        /\ ret_start = 0
        /\ ret_end = 2

\* C10 as amended: in the scenario make_ancestor yields
\* ancestor = [1, 1, UNKNOWN], start = 0, end = 2.
C10_ScenarioResult ==
    C10_Scenario =>
        /\ ancestor = (0 :> 1 @@ 1 :> 1 @@ 2 :> UNKNOWN)
        /\ ret_start = 0
        /\ ret_end = 2

\* The scenario has been run.
C10_Witness == C10_Scenario

\* The add_site call a step makes, when the step is one.
IsAddSite == Len(calls') = Len(calls) + 1
LastCall == calls'[Len(calls')]

\* C11: an add_site call with frequency 0 or 1 sets the frequency of its site
\* and nothing else: the site has no genotype vector, and every other site,
\* every bucket, every pattern item, the arena and the descriptors are as
\* they were before the call.
C11_LowFrequencySite ==
    [][(IsAddSite /\ LastCall.frequency <= 1) =>
          /\ self'.sites[LastCall.site].frequency = LastCall.frequency
          /\ self'.sites[LastCall.site].genotypes = NULL
          /\ \A k \in Sites \ {LastCall.site} : self'.sites[k] = self.sites[k]
          /\ self'.frequency_map = self.frequency_map
          /\ self'.allocator = self.allocator
          /\ self'.descriptors = self.descriptors
          /\ self'.num_ancestors = self.num_ancestors
          /\ self'.num_samples = self.num_samples
          /\ self'.num_sites = self.num_sites]_vars

\* A site of frequency 1 was added after a site that has a pattern.
C11_Witness ==
    /\ Len(calls) >= 2
    /\ calls[Len(calls)].frequency = 1
    /\ \E i \in PatternCalls : i < Len(calls)
    /\ self.sites[calls[Len(calls)].site] = [frequency |-> 1, genotypes |-> NULL]

\* C19 as stated: after finalise, consecutive descriptors have strictly
\* decreasing frequencies.
C19_StrictlyDecreasing ==
    finalised =>
        \A i \in Descriptors :
            i + 1 < self.num_ancestors =>
                self.descriptors[i].frequency > self.descriptors[i + 1].frequency

\* C19 as amended: after finalise, a descriptor's frequency is never smaller
\* than that of a later descriptor, and two descriptors have the same
\* frequency only if every descriptor between them has it too.
C19_NonIncreasing ==
    finalised =>
        \A i, k \in Descriptors :
            i < k =>
                /\ self.descriptors[i].frequency >= self.descriptors[k].frequency
                /\ self.descriptors[i].frequency = self.descriptors[k].frequency
                      => \A m \in i .. k :
                            self.descriptors[m].frequency = self.descriptors[i].frequency

\* Finalised with a descriptor of one frequency followed by two of a lower
\* frequency whose focal sites carry different patterns.
C19_Witness ==
    /\ finalised
    /\ \E i \in Descriptors :
          /\ i + 2 < self.num_ancestors
          /\ self.descriptors[i].frequency > self.descriptors[i + 1].frequency
          /\ self.descriptors[i + 1].frequency = self.descriptors[i + 2].frequency
          /\ self.sites[FocalSitesOf(i + 1)[1]].genotypes
                 # self.sites[FocalSitesOf(i + 2)[1]].genotypes

\* The stop threshold of the last make_ancestor call: half the focal site's
\* frequency, rounded down.
Threshold == self.sites[focal].frequency \div 2

\* The last site of a pass that never stops, or that stops in iteration n.
LastSiteBefore(older_sites, n) ==
    IF n = 1 THEN focal ELSE older_sites[n - 1]

\* The iteration in which a pass stops, or 0.
StopOf(older_sites) ==
    IF \E n \in Iterations(older_sites) : LoopAt(older_sites, n).stopped
    THEN CHOOSE n \in Iterations(older_sites) : LoopAt(older_sites, n).stopped
    ELSE 0

\* The last site a pass reached.
LastSiteOf(older_sites) ==
    IF StopOf(older_sites) = 0
    THEN LastSiteBefore(older_sites, Len(older_sites) + 1)
    ELSE LastSiteBefore(older_sites, StopOf(older_sites))

\* C20: in each pass of make_ancestor an older site is written exactly when
\* more than floor(f* / 2) samples remain after the removals at it and the
\* pass has not stopped before; at the first site where at most floor(f* / 2)
\* remain, that site and all older sites after it stay UNKNOWN, and start and
\* end are those of the last site written.
C20_StopThreshold ==
    focal # -1 =>
        /\ \A older_sites \in Passes :
              /\ \A n \in Iterations(older_sites) :
                    IF Cardinality(WorkingSet(older_sites, n)) <= Threshold
                    THEN /\ StopOf(older_sites) = n
                         /\ \A k \in n .. Len(older_sites) :
                               ancestor[older_sites[k]] = UNKNOWN
                    ELSE ancestor[older_sites[n]] \in {0, 1}
              /\ \A n \in 1 .. Len(older_sites) :
                    n \notin Iterations(older_sites)
                        => ancestor[older_sites[n]] = UNKNOWN
        /\ ret_end = LastSiteOf(older_sites_right(self, focal, focal + 1)) + 1
        /\ ret_start = LastSiteOf(older_sites_left(self, focal, focal - 1))

\* A make_ancestor call one pass of which wrote an older site and stopped at
\* the next one, where a sample was removed.
C20_Witness ==
    /\ focal # -1
    /\ \E older_sites \in Passes :
          /\ StopOf(older_sites) >= 2
          /\ Removed(older_sites, StopOf(older_sites)) # {}

\* C12 as stated: a make_ancestor call that returns TSI_ERR_NO_MEMORY leaves
\* the caller's ancestor buffer, start and end as they were before the call.
C12_OutputsUnchanged ==
    [][ret' = TSI_ERR_NO_MEMORY =>
          /\ ancestor' = ancestor
          /\ ret_start' = ret_start
          /\ ret_end' = ret_end]_vars

----------------------------------------------------------------------------
(* Properties of the extension module *)

\* The results of the run calls that have returned.
RunResults == {results[t] : t \in {u \in Threads : results[u].method = "run"}}

\* C13: whenever threader_run returns a non-zero error code, run raises an
\* exception and returns no mutations array.
C13_ErrorSurfaced ==
    \A r \in RunResults :
        (r.entered /\ r.err # 0) =>
            /\ r.exception # NoException
            /\ r.value = NULL

\* What run requires of the arguments of a call on a constructed Threader
\* whose panel has the dimensions dims: haplotype_index < num_haplotypes,
\* 1 <= panel_size <= num_haplotypes and a path buffer of num_sites entries.
ValidArguments(args, dims) ==
    /\ args.haplotype_index < dims.num_haplotypes
    /\ 1 <= args.panel_size
    /\ args.panel_size <= dims.num_haplotypes
    /\ paths[args.path].ndim = 1
    /\ paths[args.path].shape[1] = dims.num_sites

\* C14: a run call on a constructed Threader whose arguments (with an array
\* as path) break one of these requirements raises ValueError without
\* entering threader_run, so no thread is in or past threader_run with such
\* arguments.
C14_InvalidArgument ==
    /\ \A t \in Threads :
           threads[t].pc \in {"threader_run", "returned"}
               /\ threads[t].constructed = "ok" /\ panel.constructed = "ok"
               => ValidArguments(threads[t].args, threads[t].dims)
    /\ \A r \in RunResults :
           /\ r.constructed = "ok" /\ panel.constructed = "ok"
           /\ r.args.parsed
           /\ r.args.path \in DOMAIN paths
           /\ ~ValidArguments(r.args, r.dims)
           => r.exception = "ValueError" /\ ~r.entered

\* C16: for every run that returns a mutations array, threader_run has
\* written the path, a site l is in the array if and only if
\* panel[path[l]][l] differs from query[l], and the array is strictly
\* ascending (so each site appears once).
C16_MutationConsistency ==
    \A r \in RunResults :
        r.exception = NoException =>
            /\ r.completed
            /\ LET haplotypes == library[panel.reference_panel].haplotypes
                   query == haplotypes[r.args.haplotype_index]
               IN  /\ {r.value[k] : k \in DOMAIN r.value}
                          = {l \in DOMAIN r.path :
                                haplotypes[r.path[l]][l] # query[l]}
                   /\ \A j, k \in DOMAIN r.value :
                          j < k => r.value[j] < r.value[k]

\* The results of the calls that have returned from an object (the panel for
\* get_haplotypes and get_positions, a Threader for run and traceback) whose
\* construction failed.
ResultsAfterFailure ==
    {results[t] : t \in {u \in Threads :
        /\ results[u].method
               \in {"get_haplotypes", "get_positions", "run", "traceback"}
        /\ results[u].constructed = "failed"}}

\* C18: every get_haplotypes, get_positions, run or traceback on an object
\* whose construction failed raises SystemError and does not read the library
\* structure.
C18_Uninitialised ==
    \A r \in ResultsAfterFailure :
        r.exception = "SystemError" /\ ~r.read_library

\* What the call with frame f writes while it is inside threader_run: the
\* traceback matrix of its threader structure, its mutations block and the
\* caller's path array.
WriteSet(f) ==
    {<<"library", f.threader>>, <<"library", f.mutations>>,
     <<"paths", f.args.path>>}

\* C15 as stated: two run calls on the same Threader object are never inside
\* threader_run at the same time.
C15_NoOverlapOnThreader ==
    \A t, u \in InLibrary :
        t # u => threads[t].self # threads[u].self

\* C15: nothing keeps two run calls on the same Threader object from being
\* inside threader_run together; each Threader object has a threader
\* structure of its own, no call inside threader_run writes the panel
\* structure, and two calls inside it write a common location exactly when
\* they are on the same Threader object or were given the same path array.
C15_DisjointWrites ==
    /\ \A i, j \in ThreaderIds :
           i # j => threaders[i].threader # threaders[j].threader
    /\ \A t \in InLibrary :
           <<"library", panel.reference_panel>> \notin WriteSet(threads[t])
    /\ \A t, u \in InLibrary :
           t # u =>
               (WriteSet(threads[t]) \cap WriteSet(threads[u]) # {}
                   <=> \/ threads[t].self = threads[u].self
                       \/ threads[t].args.path = threads[u].args.path)

\* Two calls are inside threader_run together on different Threader objects
\* with different path arrays.
C15_Witness ==
    \E t, u \in InLibrary :
        /\ threads[t].self # threads[u].self
        /\ threads[t].args.path # threads[u].args.path
        /\ WriteSet(threads[t]) \cap WriteSet(threads[u]) = {}

----------------------------------------------------------------------------
(* Properties of concurrent make_ancestor calls *)

\* The builder that the add_site calls and finalise have left.
Finalised ==
    ancestor_builder_finalise(
        Filled(ancestor_builder_alloc(self.num_samples, self.num_sites),
               [l \in 0 .. self.num_sites - 1 |-> calls[l + 1].genotypes],
               self.num_sites))

\* The scratch buffers of a call that is running.
Scratch(f) == {f.older_sites, f.sample_set, f.disagree}

Running == {c \in Callers : frames[c].pc \in {"right", "left"}}

\* C17: in every interleaving of two make_ancestor calls with an output
\* buffer each, the builder stays as finalise left it, two running calls
\* have no scratch buffer in common, and a call that has returned has given
\* its caller the (ancestor, start, end) it produces when run alone.
C17_ConcurrentMakeAncestor ==
    /\ self = Finalised
    /\ \A c, d \in Running :
           c # d => Scratch(frames[c]) \cap Scratch(frames[d]) = {}
    /\ \A c \in Callers :
           frames[c].pc = "done" =>
               outputs[c] = ancestor_builder_make_ancestor(self,
                                                           frames[c].focal_site)

\* A call has returned an ancestor that spans an older site while the other
\* call, which started before the first returned (its scratch buffers are not
\* the ones the first call has freed), is still running.
C17_Witness ==
    \E c, d \in Callers :
        /\ frames[c].pc = "done"
        /\ outputs[c].ret_end - outputs[c].ret_start >= 2
        /\ d \in Running
        /\ frames[d].j >= 1
        /\ Scratch(frames[d]) \cap Scratch(frames[c]) = {}

----------------------------------------------------------------------------
(* Properties of a builder whose caller passes any frequency *)

\* "assert(count == f)" of check_state for every item of every bucket, and
\* "assert(sample_set_size == focal_site_frequency)" of make_ancestor for
\* the focal site of the last call.
AssertionsHold ==
    /\ \A f \in 0 .. self.num_samples :
           \A e \in 1 .. Len(self.frequency_map[f]) :
               Ones(self.allocator[self.frequency_map[f][e].genotypes]) = f
    /\ focal # -1 =>
           Len(ancestor_builder_get_consistent_samples(self, focal))
               = self.sites[focal].frequency

\* Every add_site call so far passed the number of ones of its column as
\* frequency.
FrequenciesCounted ==
    \A i \in 1 .. Len(calls) : calls[i].frequency = Ones(calls[i].genotypes)

\* C21 as stated: after add_site calls that meet site_id < num_sites,
\* frequency <= num_samples and genotypes in {0,1}, every pattern stored in
\* bucket f has f ones and the initial sample set of a focal site has as
\* many samples as the site's frequency.
C21_AssertionsHold == AssertionsHold

\* C21: the assertions hold when every add_site call also passed the number
\* of ones of its column as frequency.
C21_AssertionsHoldForCounts == FrequenciesCounted => AssertionsHold

\* make_ancestor has run on a focal site of a builder with two patterns,
\* all of whose sites were added with the number of ones as frequency.
C21_Witness ==
    /\ FrequenciesCounted
    /\ focal # -1
    /\ \E f, g \in 0 .. self.num_samples :
           f # g /\ Len(self.frequency_map[f]) > 0 /\ Len(self.frequency_map[g]) > 0

----------------------------------------------------------------------------
(* Properties of repeated finalisation *)

\* C22: with every site id added at most once, num_ancestors never exceeds
\* num_sites, the length of the descriptor array, and finalise on a
\* finalised builder starts from num_ancestors = 0 and leaves the same
\* num_ancestors and the same descriptors.
C22_DescriptorBound ==
    /\ self.num_ancestors <= self.num_sites
    /\ finalised =>
           /\ ancestor_builder_finalise(self).num_ancestors = self.num_ancestors
           /\ ancestor_builder_finalise(self).descriptors = self.descriptors

\* A finalised builder of at least two sites whose descriptor array is full.
C22_Witness ==
    /\ finalised
    /\ self.num_sites >= 2
    /\ self.num_ancestors = self.num_sites

----------------------------------------------------------------------------
(* Properties of add_site calls that run out of memory *)

\* C23: when add_site returns TSI_ERR_NO_MEMORY, the sites (frequency and
\* genotypes reference) and the buckets (items, site counts, site lists) are
\* as they were before the call.
C23_StateUnchanged ==
    [][ret' = TSI_ERR_NO_MEMORY =>
           /\ self'.sites = self.sites
           /\ self'.frequency_map = self.frequency_map]_vars

----------------------------------------------------------------------------
(* Properties of the two directions of make_ancestor *)

\* The finalised builder of the columns added so far in which every site
\* for which hidden holds, like every site not added, carries the derived
\* allele in no sample.
BuilderWithout(hidden(_)) ==
    ancestor_builder_finalise(
        Filled(ancestor_builder_alloc(self.num_samples, self.num_sites),
               [l \in 0 .. self.num_sites - 1 |->
                   IF hidden(l) \/ l >= Len(calls)
                   THEN [u \in 0 .. self.num_samples - 1 |-> 0]
                   ELSE calls[l + 1].genotypes],
               self.num_sites))

RightOfFocal(l) == l > focal
LeftOfFocal(l) == l < focal

\* C24: start and the values below the focal site are those that
\* make_ancestor gives on the builder that agrees on sites 0 .. focal_site
\* and has no derived allele to the right, and end and the values above the
\* focal site are those it gives on the builder that agrees on sites
\* focal_site .. num_sites - 1 and has no derived allele to the left; so any
\* two builders that agree on one side give the same result on that side.
C24_IndependentDirections ==
    focal # -1 =>
        LET leftwards == ancestor_builder_make_ancestor(
                             BuilderWithout(RightOfFocal), focal)
            rightwards == ancestor_builder_make_ancestor(
                              BuilderWithout(LeftOfFocal), focal)
        IN  /\ ret_start = leftwards.ret_start
            /\ \A l \in 0 .. focal - 1 : ancestor[l] = leftwards.ancestor[l]
            /\ ret_end = rightwards.ret_end
            /\ \A l \in focal + 1 .. self.num_sites - 1 :
                   ancestor[l] = rightwards.ancestor[l]

\* make_ancestor has written an older site on each side of the focal site,
\* and a sample of the focal site's sample set disagrees with the consensus
\* at both.
C24_Witness ==
    /\ focal # -1
    /\ \E l \in 0 .. focal - 1, r \in focal + 1 .. self.num_sites - 1 :
           /\ is_older(self, l, focal)
           /\ is_older(self, r, focal)
           /\ ancestor[l] \in Alleles
           /\ ancestor[r] \in Alleles
           /\ \E u \in 0 .. self.num_samples - 1 :
                  /\ calls[focal + 1].genotypes[u] = 1
                  /\ calls[l + 1].genotypes[u] # ancestor[l]
                  /\ calls[r + 1].genotypes[u] # ancestor[r]


====
